---- MODULE Spec2Model ----
(***************************************************************************)
(* Session lifecycle store of the task tracker: the SQLite store           *)
(* (services/database.py, services/db_pending.py), and the hook scripts    *)
(* that drive it (hooks/*.py).                                             *)
(*                                                                         *)
(* Store layout.  A session row has the surrogate key `id`, a nullable     *)
(* UNIQUE `session_id` (database.py:23), and the columns db_pending.py     *)
(* reads and writes (pending_id, shell_pid).  Child rows (timeline,        *)
(* progress, pending_decisions, snapshots) reference one session row; a    *)
(* statement that names the session by session_id is resolved to that      *)
(* row's key, and the foreign key (database.py:37, PRAGMA foreign_keys=ON  *)
(* at database.py:101) rejects a child row without a session.              *)
(*                                                                         *)
(* Time.  Every write transaction reads datetime.now() once; the model     *)
(* gives each write transaction the next value of a logical clock.  The    *)
(* purge of create_pending_session compares a row's created_at with        *)
(* "now minus 0.01 days": `horizon` is that moving limit, rows created     *)
(* before it are older than the threshold.                                 *)
(***************************************************************************)
EXTENDS Integers, Sequences, FiniteSets, TLC

\* ------------------------------------------------------------------ bounds
MaxClock == 4
MaxEvents == 4
MaxPrior == 2
MaxLines == 6
MaxTicks == 9
MaxLockTicks == 3
MaxStepTicks == 6

\* ------------------------------------------------------------------ inputs
NULL == "NULL"
NoPk == 0

PendingIds == {"p1", "p2"}
SessionIds == {"s1", "s2"}
ShellPids == {100}
Cwds == {"/proj"}
Prompts == {"fix bug", "LONG"}
PLACEHOLDER_GOAL == "waiting for input..."

\* The lists a to-do update carries, each item reduced to its status: one
\* list for every branch of handle_todo_write and of the counts.
TodoLists ==
    {<<>>, <<"pending">>, <<"in_progress">>, <<"completed">>,
     <<"completed", "pending">>, <<"completed", "in_progress">>,
     <<"completed", "completed">>}

Statuses == {"idle", "working", "executing_tool", "waiting_for_user",
             "waiting_permission", "subagent_working", "rate_limited", "completed"}

\* goal_tracker.py:114  content=prompt[:500]
USER_INPUT_MAX == 500
TextLen(t) == IF t = "LONG" THEN 501 ELSE 7
Slice(t, n) == IF TextLen(t) > n THEN "LONG[:500]" ELSE t

VARIABLES
    sessions,      \* sessions table: id -> row
    nextId,        \* AUTOINCREMENT counter of sessions.id
    timeline,      \* timeline table, in insertion order
    progress,      \* progress table: session id -> row
    decisions,     \* pending_decisions table, in insertion order
    snapshots,     \* snapshots table, in insertion order
    clock,         \* last value of datetime.now() stored by a write
    horizon,       \* rows created before this time are older than 0.01 days
    issued,        \* pending ids the shell wrapper has generated so far
    hook,          \* the last hook invocation: its input and what it saw
    pc,            \* link_pending_session callers: where each one is
    loc,           \* link_pending_session callers: arguments and locals
    view,          \* the last result aggregate_timeline_nodes returned
    transcript_path, \* the lines of the file at transcript_path
    all_sessions   \* the object in all_sessions.json: key -> entry; followed
                   \* in SpecFile, SpecProjection and SpecStop only

vars == <<sessions, nextId, timeline, progress, decisions, snapshots,
          clock, horizon, issued, hook, pc, loc, view, transcript_path, all_sessions>>

NoLimit == -1

\* The store as a hook process sees it, with what is local to the process:
\* budget, the number of write transactions that get the lock before one
\* waits out its timeout (NoLimit: the lock is always free in time); calls,
\* the write transactions and outside calls made so far, in order; notes,
\* the notifications handed to the notifier.
DB == [sessions |-> sessions, nextId |-> nextId, timeline |-> timeline,
       progress |-> progress, decisions |-> decisions,
       snapshots |-> snapshots, clock |-> clock,
       budget |-> NoLimit, calls |-> <<>>, notes |-> <<>>, notifier |-> "ok",
       utc_offset |-> 0, all_sessions |-> all_sessions]

Commit(d) ==
    /\ sessions' = d.sessions
    /\ nextId' = d.nextId
    /\ timeline' = d.timeline
    /\ progress' = d.progress
    /\ decisions' = d.decisions
    /\ snapshots' = d.snapshots
    /\ clock' = d.clock

Get(rec, key, default) == IF key \in DOMAIN rec THEN rec[key] ELSE default

Restrict(f, S) == [x \in S |-> f[x]]

Min(S) == CHOOSE x \in S : \A y \in S : x <= y

RECURSIVE CountCompleted(_)
CountCompleted(todos) ==
    IF todos = <<>> THEN 0
    ELSE (IF Head(todos) = "completed" THEN 1 ELSE 0) + CountCompleted(Tail(todos))

\* ------------------------------------------------------- services/database.py

\* get_session: SELECT * FROM sessions WHERE session_id = ?
get_session(d, session_id) ==
    LET hit == {pk \in DOMAIN d.sessions : d.sessions[pk].session_id = session_id}
    IN IF hit = {} \/ session_id = NULL THEN NoPk ELSE Min(hit)

Event(pk, type, content, metadata, now) ==
    [pk |-> pk, event_type |-> type, content |-> content,
     metadata |-> metadata, timestamp |-> now]

\* The result of a store call: the store after it, its return value, and
\* the exception it raised ("" when it returned normally).
Ok(d, ret) == [db |-> d, ret |-> ret, exc |-> ""]
Raise(d, exc) == [db |-> d, ret |-> NoPk, exc |-> exc]

\* Variant: no rollback, the statements run before the error stay.
Tx_no_rollback(name, d, r) ==
    LET called == [d EXCEPT !.calls = Append(d.calls, name)]
    IN IF d.budget = 0
       THEN Raise([r.db EXCEPT !.calls = called.calls], "OperationalError")
       ELSE [r EXCEPT !.db.calls = called.calls,
                      !.db.budget = IF d.budget = NoLimit THEN NoLimit
                                    ELSE d.budget - 1]

\* get_connection: one write transaction.  sqlite3.connect(timeout=10.0)
\* waits for the lock; when the wait runs out the statement raises
\* OperationalError, the transaction is rolled back and the exception is
\* raised again.  Otherwise the body runs and commits, or raises and is
\* rolled back.
Tx(name, d, r) ==
    LET called == [d EXCEPT !.calls = Append(d.calls, name)]
    IN IF d.budget = 0 THEN Raise(called, "OperationalError")
       ELSE [r EXCEPT !.db.calls = called.calls,
                      !.db.budget = IF d.budget = NoLimit THEN NoLimit
                                    ELSE d.budget - 1]

NewRow(session_id, pending_id, project, goal, status, now, shell_pid) ==
    [session_id |-> session_id, pending_id |-> pending_id, project |-> project,
     original_goal |-> goal, current_status |-> status,
     created_at |-> now, last_activity |-> now, shell_pid |-> shell_pid]

EmptyProgress == [todos |-> <<>>, completed_count |-> 0, total_count |-> 0]

\* create_session: INSERT OR IGNORE the row (current_status takes the
\* column default 'working'), INSERT the goal_set event, INSERT OR IGNORE
\* the progress row; one transaction.
create_session(d, session_id, project, original_goal) ==
    Tx("create_session", d,
    LET now == d.clock + 1
        old == get_session(d, session_id)
        pk == IF old = NoPk THEN d.nextId ELSE old
        rows == IF old = NoPk
                THEN (pk :> NewRow(session_id, NULL, project, original_goal,
                                   "working", now, 0)) @@ d.sessions
                ELSE d.sessions
        prog == IF pk \in DOMAIN d.progress THEN d.progress
                ELSE (pk :> EmptyProgress) @@ d.progress
    IN Ok([d EXCEPT !.sessions = rows,
                    !.nextId = IF old = NoPk THEN d.nextId + 1 ELSE d.nextId,
                    !.timeline = Append(d.timeline,
                                        Event(pk, "goal_set", original_goal, <<>>, now)),
                    !.progress = prog,
                    !.clock = now], NoPk))

\* update_session_status: UPDATE the row, INSERT a status_change event;
\* one transaction.  Without a row the INSERT violates the foreign key and
\* the transaction is rolled back.
update_session_status(d, session_id, status) ==
    Tx("update_session_status", d,
    LET now == d.clock + 1
        pk == get_session(d, session_id)
    IN IF pk = NoPk THEN Raise(d, "IntegrityError")
       ELSE Ok([d EXCEPT !.sessions[pk].current_status = status,
                         !.sessions[pk].last_activity = now,
                         !.timeline = Append(d.timeline,
                                             Event(pk, "status_change", status, <<>>, now)),
                         !.clock = now], NoPk))

\* update_progress: INSERT OR REPLACE the progress row, bump last_activity,
\* INSERT a progress_update event; one transaction.
update_progress(d, session_id, todos) ==
    Tx("update_progress", d,
    LET now == d.clock + 1
        pk == get_session(d, session_id)
        completed == CountCompleted(todos)
        total == Len(todos)
    IN IF pk = NoPk THEN Raise(d, "IntegrityError")
       ELSE Ok([d EXCEPT !.progress = (pk :> [todos |-> todos,
                                               completed_count |-> completed,
                                               total_count |-> total]) @@ d.progress,
                         !.sessions[pk].last_activity = now,
                         !.timeline = Append(d.timeline,
                                             Event(pk, "progress_update", NULL,
                                                   <<completed, total>>, now)),
                         !.clock = now], NoPk))

\* get_progress: SELECT * FROM progress WHERE session_id = ?
get_progress(d, session_id) ==
    LET pk == get_session(d, session_id)
    IN IF pk \in DOMAIN d.progress THEN d.progress[pk] ELSE EmptyProgress

\* add_pending_decision: INSERT the decision, bump last_activity.
add_pending_decision(d, session_id, question, options) ==
    Tx("add_pending_decision", d,
    LET now == d.clock + 1
        pk == get_session(d, session_id)
    IN IF pk = NoPk THEN Raise(d, "IntegrityError")
       ELSE Ok([d EXCEPT !.decisions = Append(d.decisions,
                                              [pk |-> pk, question |-> question,
                                               options |-> options, resolved |-> 0,
                                               created_at |-> now]),
                         !.sessions[pk].last_activity = now,
                         !.clock = now], Len(d.decisions) + 1))

\* resolve_pending_decisions: UPDATE ... SET resolved = 1 WHERE resolved = 0
resolve_pending_decisions(d, session_id) ==
    Tx("resolve_pending_decisions", d,
    LET pk == get_session(d, session_id)
    IN Ok([d EXCEPT !.decisions =
                 [i \in DOMAIN d.decisions |->
                     IF d.decisions[i].pk = pk /\ pk # NoPk
                     THEN [d.decisions[i] EXCEPT !.resolved = 1]
                     ELSE d.decisions[i]]], NoPk))

\* Variant: ORDER BY created_at ASC.
get_pending_decisions_oldest_first(d, session_id) ==
    LET pk == get_session(d, session_id)
    IN SelectSeq(d.decisions, LAMBDA e : e.pk = pk /\ e.resolved = 0)

\* get_pending_decisions: the unresolved decisions of the session, newest
\* first (ORDER BY created_at DESC).
get_pending_decisions(d, session_id) ==
    LET pk == get_session(d, session_id)
        mine == SelectSeq(d.decisions, LAMBDA e : e.pk = pk /\ e.resolved = 0)
    IN [i \in 1..Len(mine) |-> mine[Len(mine) + 1 - i]]

\* add_timeline_event: INSERT one timeline row.
add_timeline_event(d, session_id, event_type, content) ==
    Tx("add_timeline_event", d,
    LET now == d.clock + 1
        pk == get_session(d, session_id)
    IN IF pk = NoPk THEN Raise(d, "IntegrityError")
       ELSE Ok([d EXCEPT !.timeline = Append(d.timeline,
                                             Event(pk, event_type, content, <<>>, now)),
                         !.clock = now], NoPk))

\* save_snapshot: INSERT one snapshot row.
save_snapshot(d, session_id) ==
    Tx("save_snapshot", d,
    LET now == d.clock + 1
        pk == get_session(d, session_id)
    IN IF pk = NoPk THEN Raise(d, "IntegrityError")
       ELSE Ok([d EXCEPT !.snapshots = Append(d.snapshots,
                                              [pk |-> pk, created_at |-> now]),
                         !.clock = now], NoPk))

\* ------------------------------------------------------ services/db_pending.py

\* Variant: the snapshots table declared without ON DELETE CASCADE.
DeleteSessions_keeps_snapshots(d, gone) ==
    [d EXCEPT !.sessions = Restrict(d.sessions, DOMAIN d.sessions \ gone),
              !.progress = Restrict(d.progress, DOMAIN d.progress \ gone),
              !.timeline = SelectSeq(d.timeline, LAMBDA e : e.pk \notin gone),
              !.decisions = SelectSeq(d.decisions, LAMBDA e : e.pk \notin gone)]

\* ON DELETE CASCADE: the child rows of deleted sessions go with them.
DeleteSessions(d, gone) ==
    [d EXCEPT !.sessions = Restrict(d.sessions, DOMAIN d.sessions \ gone),
              !.progress = Restrict(d.progress, DOMAIN d.progress \ gone),
              !.timeline = SelectSeq(d.timeline, LAMBDA e : e.pk \notin gone),
              !.decisions = SelectSeq(d.decisions, LAMBDA e : e.pk \notin gone),
              !.snapshots = SelectSeq(d.snapshots, LAMBDA e : e.pk \notin gone)]

\* Variant: the purge does not ask whether the row is linked.
StalePending_linked_too(d, project) ==
    {pk \in DOMAIN d.sessions :
        /\ d.sessions[pk].pending_id # NULL
        /\ d.sessions[pk].project = project
        /\ d.sessions[pk].created_at < horizon}

\* The rows the purge of create_pending_session deletes: pending, same
\* project, created more than 0.01 days ago.
StalePending(d, project) ==
    {pk \in DOMAIN d.sessions :
        /\ d.sessions[pk].pending_id # NULL
        /\ d.sessions[pk].session_id = NULL
        /\ d.sessions[pk].project = project
        /\ d.sessions[pk].created_at < horizon}

\* cleanup_old_sessions: one DELETE of the rows whose last activity is more
\* than `days` days old, that is, older than cutoff = now - days.
cleanup_old_sessions(d, cutoff) ==
    Tx("cleanup_old_sessions", d,
    LET old == {pk \in DOMAIN d.sessions : d.sessions[pk].last_activity < cutoff}
    IN Ok(DeleteSessions(d, old), Cardinality(old)))

\* cleanup_active_sessions_by_shell_pid: one UPDATE, no timeline row.
cleanup_active_sessions_by_shell_pid(d, shell_pid) ==
    Tx("cleanup_active_sessions_by_shell_pid", d,
    LET now == d.clock + 1
        hit == {pk \in DOMAIN d.sessions :
                   /\ d.sessions[pk].shell_pid = shell_pid
                   /\ d.sessions[pk].current_status # "completed"}
    IN Ok([d EXCEPT !.sessions =
                 [pk \in DOMAIN d.sessions |->
                     IF pk \in hit
                     THEN [d.sessions[pk] EXCEPT !.current_status = "completed",
                                                 !.last_activity = now]
                     ELSE d.sessions[pk]],
                    !.clock = IF hit = {} THEN d.clock ELSE now], Cardinality(hit)))

\* create_pending_session: purge, INSERT the row with status idle and the
\* placeholder goal, INSERT its progress row; one transaction.  The row is
\* stamped with datetime.now(), the local time of the process: the time of
\* the store's julianday('now') plus the zone's offset.
create_pending_session(d, pending_id, project, shell_pid) ==
    Tx("create_pending_session", d,
    LET now == d.clock + 1
        d1 == DeleteSessions(d, StalePending(d, project))
        pk == d.nextId
    IN Ok([d1 EXCEPT !.sessions = (pk :> NewRow(NULL, pending_id, project,
                                                PLACEHOLDER_GOAL, "idle",
                                                now + d.utc_offset,
                                                shell_pid)) @@ d1.sessions,
                     !.nextId = pk + 1,
                     !.progress = (pk :> EmptyProgress) @@ d1.progress,
                     !.clock = now], pk))

\* Variant: the SELECT without "AND session_id IS NULL".
UnlinkedPending_any(d, pending_id) ==
    {pk \in DOMAIN d.sessions : d.sessions[pk].pending_id = pending_id}

\* The rows link_pending_session's SELECT matches.
UnlinkedPending(d, pending_id) ==
    {pk \in DOMAIN d.sessions :
        /\ d.sessions[pk].pending_id = pending_id
        /\ d.sessions[pk].session_id = NULL}

\* Variant: session_id without its UNIQUE constraint.
link_write_no_unique(d, session_pk, real_session_id, goal) ==
    LET now == d.clock + 1
    IN IF session_pk \notin DOMAIN d.sessions
       THEN (IF goal # "" THEN Raise(d, "IntegrityError") ELSE Ok(d, session_pk))
       ELSE Ok([d EXCEPT !.sessions[session_pk].session_id = real_session_id,
                         !.sessions[session_pk].original_goal =
                             IF goal # "" THEN goal ELSE @,
                         !.sessions[session_pk].current_status = "working",
                         !.sessions[session_pk].last_activity = now,
                         !.timeline = IF goal # ""
                                      THEN Append(d.timeline,
                                                  Event(session_pk, "goal_set", goal,
                                                        <<>>, now))
                                      ELSE @,
                         !.clock = now], session_pk)

\* Variant: the goal_set INSERT dropped from the transaction.
link_write_no_event(d, session_pk, real_session_id, goal) ==
    LET now == d.clock + 1
        clash == \E pk \in DOMAIN d.sessions :
                    pk # session_pk /\ d.sessions[pk].session_id = real_session_id
    IN IF session_pk \notin DOMAIN d.sessions
       THEN (IF goal # "" THEN Raise(d, "IntegrityError") ELSE Ok(d, session_pk))
       ELSE IF clash THEN Raise(d, "IntegrityError")
       ELSE Ok([d EXCEPT !.sessions[session_pk].session_id = real_session_id,
                         !.sessions[session_pk].original_goal =
                             IF goal # "" THEN goal ELSE @,
                         !.sessions[session_pk].current_status = "working",
                         !.sessions[session_pk].last_activity = now,
                         !.clock = now], session_pk)

\* The UPDATE (and INSERT) of link_pending_session on the row its SELECT
\* returned.  session_id is UNIQUE: setting it to a value another row
\* holds raises IntegrityError and the transaction is rolled back.  A row
\* deleted since the SELECT makes the UPDATE match nothing and the INSERT
\* violate the foreign key.
link_write(d, session_pk, real_session_id, goal) ==
    Tx("link_write", d,
    LET now == d.clock + 1
        clash == \E pk \in DOMAIN d.sessions :
                    pk # session_pk /\ d.sessions[pk].session_id = real_session_id
    IN IF session_pk \notin DOMAIN d.sessions
       THEN (IF goal # "" THEN Raise(d, "IntegrityError") ELSE Ok(d, session_pk))
       ELSE IF clash THEN Raise(d, "IntegrityError")
       ELSE IF goal # ""
       THEN Ok([d EXCEPT !.sessions[session_pk].session_id = real_session_id,
                         !.sessions[session_pk].original_goal = goal,
                         !.sessions[session_pk].current_status = "working",
                         !.sessions[session_pk].last_activity = now,
                         !.timeline = Append(d.timeline,
                                             Event(session_pk, "goal_set", goal, <<>>, now)),
                         !.clock = now], session_pk)
       ELSE Ok([d EXCEPT !.sessions[session_pk].session_id = real_session_id,
                         !.sessions[session_pk].current_status = "working",
                         !.sessions[session_pk].last_activity = now,
                         !.clock = now], session_pk))

\* link_pending_session run without interference: SELECT, then the write.
link_pending_session(d, pending_id, real_session_id, goal) ==
    LET rows == UnlinkedPending(d, pending_id)
    IN IF rows = {} THEN Ok(d, NoPk)
       ELSE link_write(d, Min(rows), real_session_id, goal)

\* cleanup_pending_session: one UPDATE, no timeline row.
cleanup_pending_session(d, pending_id) ==
    Tx("cleanup_pending_session", d,
    LET now == d.clock + 1
        hit == {pk \in UnlinkedPending(d, pending_id) :
                   d.sessions[pk].current_status # "completed"}
    IN Ok([d EXCEPT !.sessions =
                 [pk \in DOMAIN d.sessions |->
                     IF pk \in hit
                     THEN [d.sessions[pk] EXCEPT !.current_status = "completed",
                                                 !.last_activity = now]
                     ELSE d.sessions[pk]],
                    !.clock = IF hit = {} THEN d.clock ELSE now], Cardinality(hit)))

\* ----------------------------------------------------- services/db_timeline.py
\* Timestamps are seconds here.
DEBOUNCE_SECONDS == 30
MILESTONE_STEP == 3
NoTime == -1

\* db_timeline.py:67-75: the session's events, ORDER BY timestamp ASC.
SessionEvents(d, session_id) ==
    LET pk == get_session(d, session_id)
    IN SelectSeq(d.timeline, LAMBDA e : e.pk = pk /\ pk # NoPk)

\* strftime('%H:%M'): the minute of the day.
HourMinute(timestamp) == (timestamp \div 60) % 1440

\* The locals of the loop before its first iteration (db_timeline.py:80-84).
FoldInit ==
    [nodes |-> <<>>, last_event_time |-> NoTime, consecutive_progress |-> 0,
     last_completed_count |-> 0, last_status |-> NULL]

\* db_timeline.py:176-178: append the node, remember its time.
Emit(st, event, type, status) ==
    [st EXCEPT !.nodes = Append(@, [time |-> HourMinute(event.timestamp),
                                    type |-> type, status |-> status]),
               !.last_event_time = event.timestamp]

\* db_timeline.py:101-105: the test that skips a status_change event.
Debounced_never(st, event) == FALSE

Debounced(st, event) ==
    /\ st.last_event_time # NoTime
    /\ event.event_type = "status_change"
    /\ event.timestamp - st.last_event_time < DEBOUNCE_SECONDS

\* db_timeline.py:119-147
StatusChangeStep(st, event) ==
    LET content == event.content
        st1 == [st EXCEPT !.last_status = content]
    IN IF content = st.last_status THEN st
       ELSE IF content = "waiting_for_user" THEN Emit(st1, event, "waiting", "current")
       ELSE IF content = "waiting_permission"
       THEN Emit(st1, event, "permission", "current")
       ELSE IF content = "completed" THEN Emit(st1, event, "complete", "completed")
       ELSE st1

\* db_timeline.py:149-174: the milestone node is assigned first, the
\* complete node after it to the same variable.
ProgressStep(st, event) ==
    LET completed == event.metadata[1]
        total == event.metadata[2]
        counted == IF completed > st.last_completed_count
                   THEN st.consecutive_progress + (completed - st.last_completed_count)
                   ELSE st.consecutive_progress
        milestone == counted >= MILESTONE_STEP
        st1 == [st EXCEPT !.consecutive_progress = IF milestone THEN 0 ELSE counted,
                          !.last_completed_count = completed]
    IN IF completed = total /\ total > 0 THEN Emit(st1, event, "complete", "completed")
       ELSE IF milestone THEN Emit(st1, event, "milestone", "completed")
       ELSE st1

\* Variant: a debounced status_change also forgets the nodes emitted so far.
FoldStep_forgets(st, event) ==
    IF Debounced(st, event) THEN [st EXCEPT !.nodes = <<>>]
    ELSE IF event.event_type = "goal_set" THEN Emit(st, event, "start", "completed")
    ELSE IF event.event_type = "status_change" THEN StatusChangeStep(st, event)
    ELSE IF event.event_type = "progress_update" THEN ProgressStep(st, event)
    ELSE st

\* One iteration of the loop (db_timeline.py:86-178).
FoldStep(st, event) ==
    IF Debounced(st, event) THEN st
    ELSE IF event.event_type = "goal_set" THEN Emit(st, event, "start", "completed")
    ELSE IF event.event_type = "status_change" THEN StatusChangeStep(st, event)
    ELSE IF event.event_type = "progress_update" THEN ProgressStep(st, event)
    ELSE st

RECURSIVE Fold(_, _)
Fold(st, events) ==
    IF events = <<>> THEN st ELSE Fold(FoldStep(st, Head(events)), Tail(events))

\* db_timeline.py:180-181
MarkLast(nodes) ==
    IF nodes # <<>> /\ nodes[Len(nodes)].type # "complete"
    THEN [nodes EXCEPT ![Len(nodes)].status = "current"]
    ELSE nodes

\* Python's seq[start:] for start <= 0: -0 is 0, the whole list.
SliceFrom(seq, start) ==
    LET first == IF start < 0 THEN (IF Len(seq) + start < 0 THEN 0 ELSE Len(seq) + start)
                 ELSE (IF start > Len(seq) THEN Len(seq) ELSE start)
    IN SubSeq(seq, first + 1, Len(seq))

\* db_timeline.py:183  nodes[-max_nodes:] if len(nodes) > max_nodes else nodes
Truncate(nodes, max_nodes) ==
    IF Len(nodes) > max_nodes THEN SliceFrom(nodes, 0 - max_nodes) ELSE nodes

AllNodes(d, session_id) == MarkLast(Fold(FoldInit, SessionEvents(d, session_id)).nodes)

aggregate_timeline_nodes(d, session_id, max_nodes) ==
    Truncate(AllNodes(d, session_id), max_nodes)

\* ------------------------------------------------------------- hooks/utils.py

\* get_env_info: the keys it returns, read from the process environment.
get_env_info(env) ==
    [bundle_id |-> Get(env, "CLAUDE_TERM_BUNDLE_ID", "com.apple.Terminal"),
     pid |-> Get(env, "CLAUDE_TERM_PID", 0),
     window_id |-> Get(env, "CLAUDE_CG_WINDOW_ID", 0),
     account_alias |-> Get(env, "CLAUDE_ACCOUNT_ALIAS", "default"),
     config_dir |-> Get(env, "CLAUDE_CONFIG_DIR", "")]

\* The environment the shell wrapper gives its child processes.
WrapperEnv(pending_id, shell_pid) ==
    [CLAUDE_PENDING_SESSION_ID |-> pending_id, CLAUDE_SHELL_PID |-> shell_pid,
     CLAUDE_TERM_PID |-> 4242, CLAUDE_CG_WINDOW_ID |-> 7]

\* A store call made after r, unless r raised.
Then(r, F(_)) == IF r.exc # "" THEN r ELSE F(r.db)

\* --------------------------------------- services/summary_service.py (the call)
\* SummaryService.summarize: an outside call; it touches no table.
summarize(d) == Ok([d EXCEPT !.calls = Append(d.calls, "summarize")], NoPk)

\* --------------------------------------------------- services/notification.py
\* _send_via_swift_app: what the run of the notifier binary comes to; a
\* non-zero return code, a timeout and any other exception are logged and
\* give False; a missing binary falls back to osascript, which gives True
\* or, on any exception, False.
Deliveries == {"ok", "failed", "timeout", "missing", "fallback"}
_send_via_swift_app(d) == d.notifier \in {"ok", "fallback"}

\* A key of the object is a prefix and an id put together ('pending_' +
\* pending_id, or the session id alone), kept as the pair.
Key(prefix, id) == <<prefix, id>>

\* _write_state_file: the entry of session_id in the object read from
\* all_sessions.json is replaced and the object written back; a missing or
\* unparsable file reads as the empty object.
Put(f, key, val) == [k \in DOMAIN f \cup {key} |-> IF k = key THEN val ELSE f[k]]
_write_state_file(d, session_id, payload) == [d EXCEPT !.all_sessions = Put(d.all_sessions, Key("", session_id), payload)]

\* send_rich_notification: the state file is written and the notifier is
\* run; it returns whether the notification was delivered.  It raises
\* nothing and touches no table.
Payload(session_id, notification_type, pending_question) == [session_id |-> session_id, notification_type |-> notification_type, pending_question |-> pending_question]
send_rich_notification(d, session_id, notification_type, pending_question) ==
    LET d1 == _write_state_file(d, session_id, Payload(session_id, notification_type, pending_question))
    IN Ok([d1 EXCEPT !.calls = Append(d.calls, "notify"),
                     !.notes = Append(d.notes, [notification_type |-> notification_type,
                                                pending_question |-> pending_question])],
          _send_via_swift_app(d))

notify_task_idle(d, session_id) == send_rich_notification(d, session_id, "idle", NULL)
notify_decision_needed(d, session_id, question) == send_rich_notification(d, session_id, "decision_needed", question)
notify_permission_needed(d, session_id) == send_rich_notification(d, session_id, "permission_needed", NULL)
notify_rate_limit(d, session_id) == send_rich_notification(d, session_id, "rate_limited", NULL)

\* ------------------------------------------------- how a hook process ends
\* utils.write_hook_output: print the acknowledgment, sys.exit(0).
ACK == [continue |-> TRUE, suppressOutput |-> TRUE]
write_hook_output == [stdout |-> <<ACK>>, exit_code |-> 0]

\* The __main__ block of the seven hooks of task_tracker/hooks that the
\* host calls: main() ends every path with write_hook_output(); an
\* Exception raised in main() is caught, logged, and write_hook_output()
\* is called.
HostHooks ==
    {"prompt", "pre_tool", "post_tool", "permission", "subagent", "stop",
     "notification"}
hook_main_guard(r) ==
    IF r.exc = "" THEN write_hook_output ELSE write_hook_output

\* session_init.py and session_cleanup.py, run by the shell wrapper: the
\* exception is caught and logged, nothing is printed.
wrapper_main_guard(r) == [stdout |-> <<>>, exit_code |-> 0]

\* notification_hook.py main: sys.exit(1) on a payload that is not JSON,
\* sys.exit(0) when the notifier returns 0, sys.exit(2) when it returns
\* another code, times out or cannot be run.  Nothing is printed.
NotifierResults == {"ok", "failed", "timeout", "missing"}
notification_hook_main(payload_is_json, notifier) ==
    IF ~payload_is_json THEN [stdout |-> <<>>, exit_code |-> 1]
    ELSE IF notifier = "ok" THEN [stdout |-> <<>>, exit_code |-> 0]
    ELSE [stdout |-> <<>>, exit_code |-> 2]

StatusOf(d, pk) == IF pk \in DOMAIN d.sessions THEN d.sessions[pk].current_status
                   ELSE "absent"

\* kind: the variant of the event (tool name, notification type, sub-agent
\* mode, whether the transcript shows a rate limit, whether a question is
\* asked).
NoHook ==
    [name |-> "none", kind |-> "", session_id |-> "", pending_id |-> "",
     shell_pid |-> 0, prompt |-> "", todos |-> <<>>, prev |-> "absent",
     exc |-> "", calls |-> <<>>, notes |-> <<>>,
     out |-> [stdout |-> <<>>, exit_code |-> 0]]

\* ------------------------------------------------------ hooks/session_init.py
session_init_main(d, env, cwd) ==
    LET env_info == get_env_info(env)
        pending_id == Get(env, "CLAUDE_PENDING_SESSION_ID", "")
        shell_pid == Get(env_info, "shell_pid", 0)
        r1 == IF shell_pid # 0
              THEN cleanup_active_sessions_by_shell_pid(d, shell_pid)
              ELSE Ok(d, 0)
    IN IF pending_id = "" THEN Ok(d, NoPk)
       ELSE Then(r1, LAMBDA d1 : create_pending_session(d1, pending_id, cwd, shell_pid))

\* ------------------------------------------------------ hooks/goal_tracker.py

\* goal_tracker.py:58-69: the second transaction after a successful link.
goal_update_linked(d, session_id, prompt) ==
    Tx("goal_update_linked", d,
    LET now == d.clock + 1
        pk == get_session(d, session_id)
    IN Ok([d EXCEPT !.sessions[pk].original_goal = prompt,
                    !.sessions[pk].current_status = "working",
                    !.sessions[pk].last_activity = now,
                    !.timeline = Append(d.timeline,
                                        Event(pk, "goal_set", prompt, <<>>, now)),
                    !.clock = now], NoPk))

\* goal_tracker.py:74-115: no link happened.
goal_create_or_input(d, session_id, prompt, cwd) ==
    IF get_session(d, session_id) = NoPk
    THEN create_session(d, session_id, cwd, prompt)
    ELSE Then(Then(resolve_pending_decisions(d, session_id),
                   LAMBDA d1 : update_session_status(d1, session_id, "working")),
              LAMBDA d2 : add_timeline_event(d2, session_id, "user_input",
                                             Slice(prompt, USER_INPUT_MAX)))

\* Variant: the empty-prompt test of goal_tracker.py:37 dropped.
goal_tracker_main_any_prompt(d, env, session_id, prompt, cwd) ==
    LET pending_id == Get(env, "CLAUDE_PENDING_SESSION_ID", "")
        linked == IF pending_id # ""
                  THEN link_pending_session(d, pending_id, session_id, cwd)
                  ELSE Ok(d, NoPk)
    IN IF session_id = "" THEN Ok(d, NoPk)
       ELSE IF linked.exc # "" THEN linked
       ELSE IF linked.ret # NoPk /\ get_session(linked.db, session_id) # NoPk
       THEN goal_update_linked(linked.db, session_id, prompt)
       ELSE goal_create_or_input(linked.db, session_id, prompt, cwd)

goal_tracker_main(d, env, session_id, prompt, cwd) ==
    LET pending_id == Get(env, "CLAUDE_PENDING_SESSION_ID", "")
        linked == IF pending_id # ""
                  THEN link_pending_session(d, pending_id, session_id, cwd)
                  ELSE Ok(d, NoPk)
    IN IF session_id = "" \/ prompt = "" THEN Ok(d, NoPk)
       ELSE IF linked.exc # "" THEN linked
       ELSE IF linked.ret # NoPk /\ get_session(linked.db, session_id) # NoPk
       THEN goal_update_linked(linked.db, session_id, prompt)
       ELSE goal_create_or_input(linked.db, session_id, prompt, cwd)

\* --------------------------------------------------- hooks/pre_tool_tracker.py
\* Variant: the status test of pre_tool_tracker.py:43 dropped.
pre_tool_main_always(d, session_id) ==
    LET pk == get_session(d, session_id)
    IN IF session_id = "" \/ pk = NoPk THEN Ok(d, NoPk)
       ELSE update_session_status(d, session_id, "executing_tool")

pre_tool_main(d, session_id) ==
    LET pk == get_session(d, session_id)
    IN IF session_id = "" \/ pk = NoPk THEN Ok(d, NoPk)
       ELSE IF d.sessions[pk].current_status \in {"working", "executing_tool"}
       THEN update_session_status(d, session_id, "executing_tool")
       ELSE Ok(d, NoPk)

\* --------------------------------------------------- hooks/progress_tracker.py
SHOULD_RESUME_WORKING ==
    {"waiting_permission", "waiting_for_user", "idle", "rate_limited"}

handle_todo_write(d, session_id, todos) ==
    LET completed == CountCompleted(todos)
        total == Len(todos)
        in_progress == \E i \in DOMAIN todos : todos[i] = "in_progress"
    IN IF todos = <<>> THEN Ok(d, NoPk)
       ELSE Then(update_progress(d, session_id, todos),
                 LAMBDA d1 :
                    IF in_progress
                    THEN update_session_status(d1, session_id, "working")
                    ELSE IF completed = total /\ total > 0
                    THEN update_session_status(d1, session_id, "completed")
                    ELSE Ok(d1, NoPk))

\* progress_tracker.py:130  [opt.get('label', '') for opt in q.get('options', [])]
OptionLabels(options) == [i \in DOMAIN options |-> Get(options[i], "label", "")]

handle_ask_user_question(d, session_id, questions) ==
    IF questions = <<>> THEN Ok(d, NoPk)
    ELSE Then(add_pending_decision(d, session_id, questions[1].question,
                                   OptionLabels(questions[1].options)),
              LAMBDA d1 :
                 Then(update_session_status(d1, session_id, "waiting_for_user"),
                      LAMBDA d2 : notify_decision_needed(d2, session_id, questions[1].question)))

progress_tracker_main(d, session_id, tool_name, todos, questions) ==
    LET pk == get_session(d, session_id)
        r1 == IF d.sessions[pk].current_status \in SHOULD_RESUME_WORKING
              THEN update_session_status(d, session_id, "working")
              ELSE Ok(d, NoPk)
    IN IF session_id = "" \/ pk = NoPk THEN Ok(d, NoPk)
       ELSE IF tool_name = "TodoWrite"
       THEN Then(r1, LAMBDA d1 : handle_todo_write(d1, session_id, todos))
       ELSE IF tool_name = "AskUserQuestion"
       THEN Then(r1, LAMBDA d1 : handle_ask_user_question(d1, session_id, questions))
       ELSE r1

\* ------------------------------------------------- hooks/permission_tracker.py
\* The status update commits; the add_timeline_event call that follows
\* passes session_pk=, which db_timeline.add_timeline_event does not
\* accept, so it raises before it touches the store.
permission_tracker_main(d, session_id) ==
    LET pk == get_session(d, session_id)
    IN IF session_id = "" \/ pk = NoPk THEN Ok(d, NoPk)
       ELSE Then(update_session_status(d, session_id, "waiting_permission"),
                 LAMBDA d1 : Raise(d1, "TypeError"))

\* --------------------------------------------------- hooks/subagent_tracker.py
subagent_tracker_main(d, mode, session_id) ==
    LET pk == get_session(d, session_id)
        status == IF mode = "start" THEN "subagent_working" ELSE "working"
        event == IF mode = "start" THEN "subagent_start" ELSE "subagent_stop"
    IN IF mode \notin {"start", "stop"} \/ session_id = "" \/ pk = NoPk
       THEN Ok(d, NoPk)
       ELSE Then(update_session_status(d, session_id, status),
                 LAMBDA d1 : add_timeline_event(d1, session_id, event, "agent"))

\* ----------------------------------------------------- hooks/snapshot_hook.py
\* Text is a sequence of characters.
UPPERCASE ==
    <<"A", "B", "C", "D", "E", "F", "G", "H", "I", "J", "K", "L", "M",
      "N", "O", "P", "Q", "R", "S", "T", "U", "V", "W", "X", "Y", "Z">>
LOWERCASE ==
    <<"a", "b", "c", "d", "e", "f", "g", "h", "i", "j", "k", "l", "m",
      "n", "o", "p", "q", "r", "s", "t", "u", "v", "w", "x", "y", "z">>

\* str.lower()
lower(text) ==
    [i \in DOMAIN text |->
        IF \E k \in DOMAIN UPPERCASE : UPPERCASE[k] = text[i]
        THEN LOWERCASE[CHOOSE k \in DOMAIN UPPERCASE : UPPERCASE[k] = text[i]]
        ELSE text[i]]

\* keyword in text
Contains(text, keyword) ==
    \E i \in 0..(Len(text) - Len(keyword)) :
        SubSeq(text, i + 1, i + Len(keyword)) = keyword

RATE_LIMIT_KEYWORDS ==
    <<<<"r", "a", "t", "e", " ", "l", "i", "m", "i", "t">>,
      <<"r", "a", "t", "e", "_", "l", "i", "m", "i", "t">>,
      <<"t", "o", "o", " ", "m", "a", "n", "y", " ", "r", "e", "q", "u", "e", "s", "t", "s">>,
      <<"4", "2", "9">>,
      <<"q", "u", "o", "t", "a", " ", "e", "x", "c", "e", "e", "d", "e", "d">>,
      <<"o", "v", "e", "r", "l", "o", "a", "d", "e", "d">>>>

NoKeyword == <<>>

\* for keyword in RATE_LIMIT_KEYWORDS: if keyword in text: return keyword
FirstKeyword(text) ==
    LET found == {k \in DOMAIN RATE_LIMIT_KEYWORDS :
                     Contains(text, RATE_LIMIT_KEYWORDS[k])}
    IN IF found = {} THEN NoKeyword ELSE RATE_LIMIT_KEYWORDS[Min(found)]

\* A line of the transcript file: a JSON object (its fields in obj) or a
\* line json.loads rejects.
JsonLine(obj) == [raw |-> "json", obj |-> obj]
GarbageLine == [raw |-> "garbage", obj |-> <<>>]

TEXT_HTTP_429 == <<"H", "T", "T", "P", " ", "4", "2", "9">>
TEXT_RATE_LIMIT == <<"R", "a", "t", "e", " ", "L", "i", "m", "i", "t">>
TEXT_OVERLOADED == <<"o", "v", "e", "r", "l", "o", "a", "d", "e", "d">>
TEXT_OK == <<"o", "k">>

LINE_TOOL_ERROR == JsonLine([type |-> "tool_result", is_error |-> TRUE, result |-> TEXT_HTTP_429])
LINE_USER == JsonLine([type |-> "user", message |-> TEXT_HTTP_429])
LINE_ERROR == JsonLine([type |-> "error", error |-> TEXT_RATE_LIMIT])
LINE_SYSTEM_OK == JsonLine([type |-> "system", message |-> TEXT_OK])
LINE_TOOL_OK == JsonLine([type |-> "tool_result", is_error |-> FALSE, result |-> TEXT_OVERLOADED])

Lines == {LINE_TOOL_ERROR, LINE_USER, LINE_ERROR, LINE_SYSTEM_OK, LINE_TOOL_OK,
          GarbageLine}

\* The transcripts the Stop hook is run on in Spec.
Transcripts == {<<>>, <<LINE_TOOL_ERROR>>, <<LINE_USER>>}

RECURSIVE ParsedLines(_)
ParsedLines(lines) ==
    IF lines = <<>> THEN <<>>
    ELSE IF Head(lines).raw = "json"
    THEN <<Head(lines).obj>> \o ParsedLines(Tail(lines))
    ELSE ParsedLines(Tail(lines))

\* snapshot_hook.py:37-52  events[-n:] if len(events) >= n else events
get_last_n_events(lines, n) ==
    LET events == ParsedLines(lines)
    IN IF Len(events) >= n THEN SliceFrom(events, 0 - n) ELSE events

\* The keyword one record makes detect_rate_limit return, NoKeyword if
\* the loop goes on to the next record.
EventKeyword(event) ==
    LET event_type == Get(event, "type", "")
    IN IF event_type \in {"user", "assistant"} THEN NoKeyword
       ELSE IF event_type = "error"
       THEN FirstKeyword(lower(Get(event, "error", <<>>)))
       ELSE IF event_type = "tool_result"
       THEN (IF Get(event, "is_error", FALSE)
             THEN FirstKeyword(lower(Get(event, "result", <<>>)))
             ELSE NoKeyword)
       ELSE IF event_type = "system"
       THEN FirstKeyword(lower(Get(event, "message", <<>>)))
       ELSE NoKeyword

NotDetected == [detected |-> FALSE, keyword |-> NoKeyword]

detect_rate_limit(lines) ==
    LET events == get_last_n_events(lines, 5)
        hits == {i \in DOMAIN events : EventKeyword(events[i]) # NoKeyword}
    IN IF hits = {} THEN NotDetected
       ELSE [detected |-> TRUE, keyword |-> EventKeyword(events[Min(hits)])]

\* ------------------------------------------------------------ stop_hook.py
\* The bytes of one line of the file. The keys and the type value of a
\* record hold no keyword, so the line is represented by its field values.
LineText(line) ==
    IF line.raw = "garbage" THEN <<"x">>
    ELSE Get(line.obj, "error", <<>>) \o <<"|">> \o Get(line.obj, "result", <<>>)
            \o <<"|">> \o Get(line.obj, "message", <<>>)

\* stop_hook.py:44-51  deque(f, n)
get_last_n_lines(lines, n) ==
    IF Len(lines) > n THEN SubSeq(lines, Len(lines) - n + 1, Len(lines)) ELSE lines

stop_hook_detect_rate_limit(lines) ==
    LET last_lines == get_last_n_lines(lines, 3)
        hits == {i \in DOMAIN last_lines :
                    FirstKeyword(lower(LineText(last_lines[i]))) # NoKeyword}
    IN IF hits = {} THEN NotDetected
       ELSE [detected |-> TRUE,
             keyword |-> FirstKeyword(lower(LineText(last_lines[Min(hits)])))]

\* ----------------------------------------------------- hooks/snapshot_hook.py
\* main: the unresolved decisions are read, the summarizer is called,
\* the snapshot is saved, then the status is written and the notifier
\* called.
snapshot_hook_main(d, session_id, transcript) ==
    LET pk == get_session(d, session_id)
        pending_decisions == get_pending_decisions(d, session_id)
        pending_question == IF pending_decisions = <<>> THEN NULL
                            ELSE pending_decisions[1].question
    IN IF session_id = "" \/ pk = NoPk THEN Ok(d, NoPk)
       ELSE Then(summarize(d), LAMBDA d0 :
            Then(save_snapshot(d0, session_id), LAMBDA d1 :
                 IF detect_rate_limit(transcript).detected
                 THEN Then(update_session_status(d1, session_id, "rate_limited"),
                           LAMBDA d2 : notify_rate_limit(d2, session_id))
                 ELSE Then(update_session_status(d1, session_id, "idle"),
                           LAMBDA d2 :
                              IF pending_question # NULL /\ pending_question # ""
                              THEN notify_decision_needed(d2, session_id, pending_question)
                              ELSE notify_task_idle(d2, session_id))))

\* ----------------------------------------------- hooks/notification_tracker.py
ELICITATION_MESSAGE == "Claude needs your input"

handle_idle(d, session_id) ==
    Then(update_session_status(d, session_id, "idle"), LAMBDA d1 :
    Then(summarize(d1), LAMBDA d2 : notify_task_idle(d2, session_id)))

handle_elicitation(d, session_id, message) ==
    Then(update_session_status(d, session_id, "waiting_for_user"), LAMBDA d1 :
    Then(summarize(d1), LAMBDA d2 : notify_decision_needed(d2, session_id, message)))

\* Variant: notify first, record the status only when delivered.
handle_permission_when_delivered(d, session_id) ==
    LET sent == notify_permission_needed(d, session_id)
    IN IF sent.ret THEN update_session_status(sent.db, session_id, "waiting_permission")
       ELSE sent

handle_permission(d, session_id) ==
    Then(update_session_status(d, session_id, "waiting_permission"),
         LAMBDA d1 : notify_permission_needed(d1, session_id))

\* Variant: a type the hook does not know is handled as idle_prompt.
notification_tracker_main_default_idle(d, session_id, notification_type, message) ==
    LET pk == get_session(d, session_id)
    IN IF session_id = "" \/ pk = NoPk THEN Ok(d, NoPk)
       ELSE IF notification_type = "elicitation_dialog"
       THEN handle_elicitation(d, session_id, message)
       ELSE IF notification_type = "permission_prompt"
       THEN handle_permission(d, session_id)
       ELSE IF notification_type = "auth_success" THEN Ok(d, NoPk)
       ELSE handle_idle(d, session_id)

\* main: auth_success is logged only; any other type is logged and, when
\* the input has a message, handed to the notifier as it is.
notification_tracker_main(d, session_id, notification_type, message) ==
    LET pk == get_session(d, session_id)
    IN IF session_id = "" \/ pk = NoPk THEN Ok(d, NoPk)
       ELSE IF notification_type = "idle_prompt" THEN handle_idle(d, session_id)
       ELSE IF notification_type = "elicitation_dialog"
       THEN handle_elicitation(d, session_id, message)
       ELSE IF notification_type = "permission_prompt"
       THEN handle_permission(d, session_id)
       ELSE IF notification_type = "auth_success" THEN Ok(d, NoPk)
       ELSE IF message # ""
       THEN send_rich_notification(d, session_id,
                IF notification_type = "" THEN "info" ELSE notification_type, NULL)
       ELSE Ok(d, NoPk)

\* --------------------------------------------------- hooks/session_cleanup.py
\* cleanup_session: every row with this pending_id that is neither
\* completed nor rate_limited becomes completed and gets a status_change
\* event; one transaction, one reading of the clock.
cleanup_session(d, pending_id) ==
    LET now == d.clock + 1
        matching == {pk \in DOMAIN d.sessions :
                        /\ d.sessions[pk].pending_id = pending_id
                        /\ d.sessions[pk].current_status
                               \notin {"completed", "rate_limited"}}
        RECURSIVE Events(_)
        Events(S) == IF S = {} THEN <<>>
                     ELSE <<Event(Min(S), "status_change", "completed", <<>>, now)>>
                          \o Events(S \ {Min(S)})
    IN IF pending_id = "" \/ matching = {} THEN Ok(d, 0)
       ELSE Tx("cleanup_session", d,
               Ok([d EXCEPT !.sessions =
                     [pk \in DOMAIN d.sessions |->
                         IF pk \in matching
                         THEN [d.sessions[pk] EXCEPT !.current_status = "completed",
                                                     !.last_activity = now]
                         ELSE d.sessions[pk]],
                         !.timeline = d.timeline \o Events(matching),
                         !.clock = now], Cardinality(matching)))

\* ------------------------------------------------------------------- actions
NoEnv == <<>>
Envs == {NoEnv} \cup {WrapperEnv(p, sp) : p \in issued, sp \in ShellPids}
HookSessionIds == {"s1"}
Questions == {<<>>, <<[question |-> "Proceed with deletion?",
                       options |-> <<[label |-> "Yes"], [label |-> "No"]>>]>>}
NotificationTypes == {"idle_prompt", "elicitation_dialog", "permission_prompt"}
SubagentModes == {"start", "stop"}

\* A hook process ran to its end: the store is as its transactions left
\* it (a transaction that raised was rolled back, the earlier ones stay).
Ran(r, h) ==
    /\ r.db.clock <= MaxClock
    /\ Commit(r.db)
    /\ hook' = [h EXCEPT !.exc = r.exc, !.calls = r.db.calls, !.notes = r.db.notes,
                      !.out = IF h.name \in HostHooks THEN hook_main_guard(r)
                              ELSE wrapper_main_guard(r)]
    /\ UNCHANGED <<horizon, pc, loc, view, transcript_path, all_sessions>>

PrevOf(session_id) == StatusOf(DB, get_session(DB, session_id))

PrevOfPending(pending_id) ==
    LET hit == {pk \in DOMAIN sessions : sessions[pk].pending_id = pending_id}
    IN IF hit = {} THEN "absent" ELSE sessions[Min(hit)].current_status

SessionInit(pending_id, cwd, shell_pid) ==
    /\ Ran(session_init_main(DB, WrapperEnv(pending_id, shell_pid), cwd),
           [NoHook EXCEPT !.name = "session_init", !.pending_id = pending_id,
                          !.shell_pid = shell_pid])
    /\ issued' = issued \cup ({pending_id} \ {""})

GoalTracker(env, session_id, prompt, cwd) ==
    /\ Ran(goal_tracker_main(DB, env, session_id, prompt, cwd),
           [NoHook EXCEPT !.name = "prompt", !.session_id = session_id,
                          !.pending_id = Get(env, "CLAUDE_PENDING_SESSION_ID", ""),
                          !.prompt = prompt,
                          !.prev = PrevOf(session_id)])
    /\ UNCHANGED issued

PreToolTracker(session_id) ==
    /\ Ran(pre_tool_main(DB, session_id),
           [NoHook EXCEPT !.name = "pre_tool", !.session_id = session_id,
                          !.prev = PrevOf(session_id)])
    /\ UNCHANGED issued

ProgressTracker(session_id, tool_name, todos, questions) ==
    /\ Ran(progress_tracker_main(DB, session_id, tool_name, todos, questions),
           [NoHook EXCEPT !.name = "post_tool", !.session_id = session_id,
                          !.kind = IF tool_name = "AskUserQuestion" /\ questions = <<>>
                                   THEN "AskUserQuestion(none)" ELSE tool_name,
                          !.todos = todos, !.prev = PrevOf(session_id)])
    /\ UNCHANGED issued

PermissionTracker(session_id) ==
    /\ Ran(permission_tracker_main(DB, session_id),
           [NoHook EXCEPT !.name = "permission", !.session_id = session_id,
                          !.prev = PrevOf(session_id)])
    /\ UNCHANGED issued

SubagentTracker(mode, session_id) ==
    /\ Ran(subagent_tracker_main(DB, mode, session_id),
           [NoHook EXCEPT !.name = "subagent", !.session_id = session_id,
                          !.kind = mode, !.prev = PrevOf(session_id)])
    /\ UNCHANGED issued

SnapshotHook(session_id, transcript) ==
    /\ Ran(snapshot_hook_main(DB, session_id, transcript),
           [NoHook EXCEPT !.name = "stop", !.session_id = session_id,
                          !.kind = IF detect_rate_limit(transcript).detected
                                   THEN "rate_limit" ELSE "",
                          !.prev = PrevOf(session_id)])
    /\ UNCHANGED issued

NotificationTracker(session_id, notification_type) ==
    /\ Ran(notification_tracker_main(DB, session_id, notification_type, ELICITATION_MESSAGE),
           [NoHook EXCEPT !.name = "notification", !.session_id = session_id,
                          !.kind = notification_type, !.prev = PrevOf(session_id)])
    /\ UNCHANGED issued

SessionCleanup(pending_id) ==
    /\ Ran(cleanup_session(DB, pending_id),
           [NoHook EXCEPT !.name = "cleanup", !.pending_id = pending_id,
                          !.prev = PrevOfPending(pending_id)])
    /\ UNCHANGED issued

\* Time passes: every row written so far is now older than 0.01 days.
TimePasses ==
    /\ horizon < clock + 1
    /\ horizon' = clock + 1
    /\ UNCHANGED <<sessions, nextId, timeline, progress, decisions, snapshots,
                   clock, issued, hook, pc, loc, view, transcript_path, all_sessions>>

Procs == {1, 2}
NoView == [session_id |-> "", max_nodes |-> 0, nodes |-> <<>>]
NoCall == [pending_id |-> "", session_id |-> "", goal |-> "", pk |-> NoPk,
           ret |-> NoPk, exc |-> ""]

Init ==
    /\ sessions = <<>>
    /\ nextId = 1
    /\ timeline = <<>>
    /\ progress = <<>>
    /\ decisions = <<>>
    /\ snapshots = <<>>
    /\ clock = 0
    /\ horizon = 0
    /\ issued = {}
    /\ hook = NoHook
    /\ pc = [p \in Procs |-> "idle"]
    /\ loc = [p \in Procs |-> NoCall]
    /\ view = NoView
    /\ transcript_path = <<>>
    /\ all_sessions = <<>>

Next ==
    \/ \E p \in PendingIds \ issued, cwd \in Cwds,
          sp \in ShellPids : SessionInit(p, cwd, sp)
    \/ \E env \in Envs, s \in HookSessionIds, prompt \in Prompts, cwd \in Cwds :
          GoalTracker(env, s, prompt, cwd)
    \/ \E s \in HookSessionIds : PreToolTracker(s)
    \/ \E s \in HookSessionIds, todos \in TodoLists :
          ProgressTracker(s, "TodoWrite", todos, <<>>)
    \/ \E s \in HookSessionIds, q \in Questions :
          ProgressTracker(s, "AskUserQuestion", <<>>, q)
    \/ \E s \in HookSessionIds : ProgressTracker(s, "Bash", <<>>, <<>>)
    \/ \E s \in HookSessionIds : PermissionTracker(s)
    \/ \E mode \in SubagentModes, s \in HookSessionIds : SubagentTracker(mode, s)
    \/ \E s \in HookSessionIds, t \in Transcripts : SnapshotHook(s, t)
    \/ \E s \in HookSessionIds, n \in NotificationTypes : NotificationTracker(s, n)
    \/ \E p \in issued \cup HookSessionIds : SessionCleanup(p)
    \/ TimePasses

Spec == Init /\ [][Next]_vars

\* ------------------------------------------- link_pending_session, concurrently
\* Each caller is a hook process inside link_pending_session.  The SELECT
\* runs before any write, so sqlite3 has not begun a transaction yet and
\* the SELECT holds no lock once it has returned; the UPDATE (and INSERT)
\* that follow are one write transaction.  Another process can commit
\* between the two.
LinkGoals == {"", "fix bug"}

CreatePending(pending_id, project) ==
    LET r == create_pending_session(DB, pending_id, project, 0)
    IN /\ r.db.clock <= MaxClock
       /\ Commit(r.db)
       /\ issued' = issued \cup {pending_id}
       /\ UNCHANGED <<horizon, hook, pc, loc, view, transcript_path, all_sessions>>

LinkSelect(proc, pending_id, real_session_id, goal) ==
    LET rows == UnlinkedPending(DB, pending_id)
        call == [NoCall EXCEPT !.pending_id = pending_id,
                               !.session_id = real_session_id, !.goal = goal]
    IN /\ pc[proc] = "idle"
       /\ IF rows = {}
          THEN /\ pc' = [pc EXCEPT ![proc] = "done"]
               /\ loc' = [loc EXCEPT ![proc] = call]
          ELSE /\ pc' = [pc EXCEPT ![proc] = "write"]
               /\ loc' = [loc EXCEPT ![proc] = [call EXCEPT !.pk = Min(rows)]]
       /\ UNCHANGED <<sessions, nextId, timeline, progress, decisions, snapshots,
                      clock, horizon, issued, hook, view, transcript_path, all_sessions>>

LinkWrite(proc) ==
    LET r == link_write(DB, loc[proc].pk, loc[proc].session_id, loc[proc].goal)
    IN /\ pc[proc] = "write"
       /\ r.db.clock <= MaxClock
       /\ Commit(r.db)
       /\ pc' = [pc EXCEPT ![proc] = "done"]
       /\ loc' = [loc EXCEPT ![proc].ret = r.ret, ![proc].exc = r.exc]
       /\ UNCHANGED <<horizon, issued, hook, view, transcript_path, all_sessions>>

LinkReturn(proc) ==
    /\ pc[proc] = "done"
    /\ pc' = [pc EXCEPT ![proc] = "idle"]
    /\ loc' = [loc EXCEPT ![proc] = NoCall]
    /\ UNCHANGED <<sessions, nextId, timeline, progress, decisions, snapshots,
                   clock, horizon, issued, hook, view, transcript_path, all_sessions>>

NextLink ==
    \/ \E p \in PendingIds \ issued, cwd \in Cwds : CreatePending(p, cwd)
    \/ \E proc \in Procs, p \in PendingIds, s \in SessionIds, g \in LinkGoals :
          LinkSelect(proc, p, s, g)
    \/ \E proc \in Procs : LinkWrite(proc)
    \/ \E proc \in Procs : LinkReturn(proc)
    \/ TimePasses

SpecLink == Init /\ [][NextLink]_vars

\* ------------------------------------------------ the store's operations
\* The public operations of the store called directly, one call per step:
\* create_pending_session with the terminal identity its caller passes,
\* link_pending_session, update_session_status, and the three cleanups.
StoreCall(op) == [NoHook EXCEPT !.name = op]

StoreCreatePending(pending_id, project, shell_pid) ==
    /\ Ran(create_pending_session(DB, pending_id, project, shell_pid),
           [StoreCall("create_pending_session") EXCEPT !.pending_id = pending_id,
                                                      !.shell_pid = shell_pid])
    /\ issued' = issued \cup {pending_id}

StoreLinkPending(pending_id, real_session_id, goal) ==
    /\ Ran(link_pending_session(DB, pending_id, real_session_id, goal),
           [StoreCall("link_pending_session") EXCEPT !.pending_id = pending_id,
                                                    !.session_id = real_session_id])
    /\ UNCHANGED issued

StoreUpdateStatus(session_id, status) ==
    /\ Ran(update_session_status(DB, session_id, status),
           [StoreCall("update_session_status") EXCEPT !.session_id = session_id,
                                                     !.kind = status,
                                                     !.prev = PrevOf(session_id)])
    /\ UNCHANGED issued

StoreCleanupShellPid(shell_pid) ==
    /\ Ran(cleanup_active_sessions_by_shell_pid(DB, shell_pid),
           [StoreCall("cleanup_active_sessions_by_shell_pid")
               EXCEPT !.shell_pid = shell_pid])
    /\ UNCHANGED issued

StoreCleanupPending(pending_id) ==
    /\ Ran(cleanup_pending_session(DB, pending_id),
           [StoreCall("cleanup_pending_session") EXCEPT !.pending_id = pending_id])
    /\ UNCHANGED issued

StoreCleanupSession(pending_id) ==
    /\ Ran(cleanup_session(DB, pending_id),
           [StoreCall("cleanup_session") EXCEPT !.pending_id = pending_id])
    /\ UNCHANGED issued

NextStore ==
    \/ \E p \in PendingIds \ issued, cwd \in Cwds, sp \in ShellPids :
          StoreCreatePending(p, cwd, sp)
    \/ \E p \in issued, s \in SessionIds, g \in LinkGoals : StoreLinkPending(p, s, g)
    \/ \E s \in SessionIds, st \in Statuses : StoreUpdateStatus(s, st)
    \/ \E sp \in ShellPids : StoreCleanupShellPid(sp)
    \/ \E p \in issued : StoreCleanupPending(p)
    \/ \E p \in issued : StoreCleanupSession(p)
    \/ TimePasses

SpecStore == Init /\ [][NextStore]_vars

\* ------------------------------------------- the timeline and its aggregation
\* One session's event log grows by the store's operations, the clock in
\* seconds; aggregate_timeline_nodes is called on it.
Gaps == {1, DEBOUNCE_SECONDS}
AggStatuses == {"working", "waiting_for_user", "waiting_permission", "completed"}
AggTodoLists ==
    {<<"completed", "in_progress", "pending">>,
     <<"completed", "completed", "in_progress">>,
     <<"completed", "completed", "completed">>,
     <<"completed", "completed", "completed", "pending">>}
MaxNodesValues == {0, 1, 2, 20}

\* The store when `gap` seconds have passed since its last write.
AtTime(d, gap) == [d EXCEPT !.clock = d.clock + gap - 1]

AggRan(r) ==
    /\ r.exc = ""
    /\ Len(r.db.timeline) <= MaxEvents
    /\ Commit(r.db)
    /\ view' = NoView
    /\ UNCHANGED <<horizon, issued, hook, pc, loc, transcript_path, all_sessions>>

AggCreateSession(session_id, project, goal) ==
    /\ get_session(DB, session_id) = NoPk
    /\ AggRan(create_session(DB, session_id, project, goal))

AggStatusChange(session_id, status, gap) ==
    /\ get_session(DB, session_id) # NoPk
    /\ AggRan(update_session_status(AtTime(DB, gap), session_id, status))

AggProgressUpdate(session_id, todos, gap) ==
    /\ get_session(DB, session_id) # NoPk
    /\ AggRan(update_progress(AtTime(DB, gap), session_id, todos))

AggUserInput(session_id, prompt, gap) ==
    /\ get_session(DB, session_id) # NoPk
    /\ AggRan(add_timeline_event(AtTime(DB, gap), session_id, "user_input",
                                 Slice(prompt, USER_INPUT_MAX)))

AggregateCall(session_id, max_nodes) ==
    /\ view' = [session_id |-> session_id, max_nodes |-> max_nodes,
                nodes |-> aggregate_timeline_nodes(DB, session_id, max_nodes)]
    /\ UNCHANGED <<sessions, nextId, timeline, progress, decisions, snapshots,
                   clock, horizon, issued, hook, pc, loc, transcript_path, all_sessions>>

NextAgg ==
    \/ \E s \in HookSessionIds, cwd \in Cwds : AggCreateSession(s, cwd, "fix bug")
    \/ \E s \in HookSessionIds, st \in AggStatuses, gap \in Gaps :
          AggStatusChange(s, st, gap)
    \/ \E s \in HookSessionIds, todos \in AggTodoLists, gap \in Gaps :
          AggProgressUpdate(s, todos, gap)
    \/ \E s \in HookSessionIds, gap \in Gaps : AggUserInput(s, "fix bug", gap)
    \/ \E s \in HookSessionIds, n \in MaxNodesValues : AggregateCall(s, n)

SpecAgg == Init /\ [][NextAgg]_vars

\* ------------------------------------------------------------------------
\* The to-do scenario: one session, some earlier history, then the
\* PostToolUse hook run for three TodoWrite calls over a 3-item list
\* with 1, 2 and 3 items completed, and aggregate_timeline_nodes called
\* at any point. Timestamps count seconds as in SpecAgg; the two
\* transactions of one hook run are one second apart.
ScenTodoLists ==
    {<<"pending", "in_progress", "completed">>,
     <<"in_progress", "in_progress", "completed">>,
     <<"in_progress", "completed", "completed">>,
     <<"completed", "completed", "completed">>}

ScenProgress ==
    LET pk == get_session(DB, "s1")
    IN IF pk \in DOMAIN progress THEN progress[pk] ELSE EmptyProgress

ScenRan(r) ==
    /\ r.exc = ""
    /\ Commit(r.db)
    /\ view' = NoView
    /\ UNCHANGED <<horizon, issued, hook, pc, loc, transcript_path, all_sessions>>

ScenCreateSession(session_id, project, goal) ==
    /\ get_session(DB, session_id) = NoPk
    /\ ScenRan(create_session(DB, session_id, project, goal))

ScenStatusChange(session_id, status, gap) ==
    /\ get_session(DB, session_id) # NoPk
    /\ ScenProgress.total_count = 0
    /\ Len(timeline) <= MaxPrior
    /\ ScenRan(update_session_status(AtTime(DB, gap), session_id, status))

ScenUserInput(session_id, prompt, gap) ==
    /\ get_session(DB, session_id) # NoPk
    /\ ScenProgress.total_count = 0
    /\ Len(timeline) <= MaxPrior
    /\ ScenRan(add_timeline_event(AtTime(DB, gap), session_id, "user_input",
                                  Slice(prompt, USER_INPUT_MAX)))

ScenTodoWrite(session_id, todos, gap) ==
    LET pk == get_session(DB, session_id)
    IN /\ pk # NoPk
       /\ ScenProgress.total_count = 0 => sessions[pk].current_status = "working"
       /\ CountCompleted(todos) = ScenProgress.completed_count + 1
       /\ ScenRan(progress_tracker_main(AtTime(DB, gap), session_id,
                                        "TodoWrite", todos, <<>>))

NextScen ==
    \/ \E s \in HookSessionIds, cwd \in Cwds : ScenCreateSession(s, cwd, "fix bug")
    \/ \E s \in HookSessionIds, st \in AggStatuses, gap \in Gaps :
          ScenStatusChange(s, st, gap)
    \/ \E s \in HookSessionIds, gap \in Gaps : ScenUserInput(s, "fix bug", gap)
    \/ \E s \in HookSessionIds, todos \in ScenTodoLists, gap \in Gaps :
          ScenTodoWrite(s, todos, gap)
    \/ \E s \in HookSessionIds, n \in MaxNodesValues : AggregateCall(s, n)

SpecScen == Init /\ [][NextScen]_vars

\* ------------------------------------------------------------------------
\* Rate-limit detection on a transcript file: the agent appends lines,
\* and either detection function is applied to the file as it stands.
TranscriptAppend(line) ==
    /\ Len(transcript_path) < MaxLines
    /\ transcript_path' = Append(transcript_path, line)
    /\ view' = NoView
    /\ UNCHANGED <<sessions, nextId, timeline, progress, decisions, snapshots,
                   clock, horizon, issued, hook, pc, loc, all_sessions>>

DetectCall ==
    /\ view' = [fn |-> "snapshot_hook", ret |-> detect_rate_limit(transcript_path)]
    /\ UNCHANGED <<sessions, nextId, timeline, progress, decisions, snapshots,
                   clock, horizon, issued, hook, pc, loc, transcript_path, all_sessions>>

StopHookDetectCall ==
    /\ view' = [fn |-> "stop_hook", ret |-> stop_hook_detect_rate_limit(transcript_path)]
    /\ UNCHANGED <<sessions, nextId, timeline, progress, decisions, snapshots,
                   clock, horizon, issued, hook, pc, loc, transcript_path, all_sessions>>

NextDetect ==
    \/ \E line \in Lines : TranscriptAppend(line)
    \/ DetectCall
    \/ StopHookDetectCall

SpecDetect == Init /\ [][NextDetect]_vars

\* ------------------------------------------------------------------------
\* One session from its first prompt on: questions are asked, prompts
\* answer them, the agent stops.  Every action is a whole hook run.
NotifyQuestions ==
    {<<[question |-> "Proceed with deletion?",
        options |-> <<[label |-> "Yes"], [label |-> "No"]>>]>>,
     <<[question |-> "Which branch?",
        options |-> <<[label |-> "main"]>>]>>}

NotifyRan(r, h) ==
    /\ r.db.clock <= MaxTicks
    /\ Commit(r.db)
    /\ hook' = [h EXCEPT !.exc = r.exc, !.calls = r.db.calls, !.notes = r.db.notes,
                      !.out = IF h.name \in HostHooks THEN hook_main_guard(r)
                              ELSE wrapper_main_guard(r)]
    /\ UNCHANGED <<horizon, issued, pc, loc, view, transcript_path, all_sessions>>

NotifyPrompt(session_id, prompt, cwd) ==
    NotifyRan(goal_tracker_main(DB, NoEnv, session_id, prompt, cwd),
              [NoHook EXCEPT !.name = "prompt", !.session_id = session_id,
                             !.prompt = prompt, !.prev = PrevOf(session_id)])

NotifyAsk(session_id, questions) ==
    NotifyRan(progress_tracker_main(DB, session_id, "AskUserQuestion", <<>>, questions),
              [NoHook EXCEPT !.name = "post_tool", !.session_id = session_id,
                             !.kind = "AskUserQuestion", !.prev = PrevOf(session_id)])

NotifyStop(session_id, transcript) ==
    NotifyRan(snapshot_hook_main(DB, session_id, transcript),
              [NoHook EXCEPT !.name = "stop", !.session_id = session_id,
                             !.kind = IF detect_rate_limit(transcript).detected
                                      THEN "rate_limit" ELSE "",
                             !.prev = PrevOf(session_id)])

NextNotify ==
    \/ \E s \in HookSessionIds, cwd \in Cwds : NotifyPrompt(s, "fix bug", cwd)
    \/ \E s \in HookSessionIds, q \in NotifyQuestions : NotifyAsk(s, q)
    \/ \E s \in HookSessionIds, t \in Transcripts : NotifyStop(s, t)

SpecNotify == Init /\ [][NextNotify]_vars

\* ------------------------------------------------------------------------
\* The hooks the host calls, run on any input (a missing session id, an
\* empty prompt, a session the store does not hold) while other
\* processes may hold the write lock: of the write transactions of one
\* hook run, the first `budget` get the lock and the next one waits out
\* its timeout.  notification_hook.py is run on any payload and notifier.
LockBudgets == {0, 1, NoLimit}
LockSessionIds == {"", "s1", "s2"}
LockPrompts == {"", "fix bug"}
LockTodoLists == {<<"in_progress">>, <<"completed">>}
LockTranscripts == {<<>>, <<LINE_TOOL_ERROR>>}

AtBudget(d, budget) == [d EXCEPT !.budget = budget]

LockRan(r, h) ==
    /\ r.db.clock <= MaxLockTicks
    /\ Commit(r.db)
    /\ hook' = [h EXCEPT !.exc = r.exc, !.calls = r.db.calls, !.notes = r.db.notes,
                         !.out = hook_main_guard(r)]
    /\ UNCHANGED <<horizon, issued, pc, loc, view, transcript_path, all_sessions>>

LockPrompt(session_id, prompt, cwd, budget) ==
    LockRan(goal_tracker_main(AtBudget(DB, budget), NoEnv, session_id, prompt, cwd),
            [NoHook EXCEPT !.name = "prompt", !.session_id = session_id,
                           !.prompt = prompt, !.prev = PrevOf(session_id)])

LockPreTool(session_id, budget) ==
    LockRan(pre_tool_main(AtBudget(DB, budget), session_id),
            [NoHook EXCEPT !.name = "pre_tool", !.session_id = session_id,
                           !.prev = PrevOf(session_id)])

LockPostTool(session_id, tool_name, todos, questions, budget) ==
    LockRan(progress_tracker_main(AtBudget(DB, budget), session_id, tool_name,
                                  todos, questions),
            [NoHook EXCEPT !.name = "post_tool", !.session_id = session_id,
                           !.kind = tool_name, !.todos = todos,
                           !.prev = PrevOf(session_id)])

LockPermission(session_id, budget) ==
    LockRan(permission_tracker_main(AtBudget(DB, budget), session_id),
            [NoHook EXCEPT !.name = "permission", !.session_id = session_id,
                           !.prev = PrevOf(session_id)])

LockSubagent(mode, session_id, budget) ==
    LockRan(subagent_tracker_main(AtBudget(DB, budget), mode, session_id),
            [NoHook EXCEPT !.name = "subagent", !.session_id = session_id,
                           !.kind = mode, !.prev = PrevOf(session_id)])

LockStop(session_id, transcript, budget) ==
    LockRan(snapshot_hook_main(AtBudget(DB, budget), session_id, transcript),
            [NoHook EXCEPT !.name = "stop", !.session_id = session_id,
                           !.kind = IF detect_rate_limit(transcript).detected
                                    THEN "rate_limit" ELSE "",
                           !.prev = PrevOf(session_id)])

LockNotification(session_id, notification_type, budget) ==
    LockRan(notification_tracker_main(AtBudget(DB, budget), session_id,
                                      notification_type, ELICITATION_MESSAGE),
            [NoHook EXCEPT !.name = "notification", !.session_id = session_id,
                           !.kind = notification_type, !.prev = PrevOf(session_id)])

NotificationHook(payload_is_json, notifier) ==
    /\ hook' = [NoHook EXCEPT !.name = "notification_hook",
                              !.kind = IF payload_is_json THEN notifier ELSE "not json",
                              !.out = notification_hook_main(payload_is_json, notifier)]
    /\ UNCHANGED <<sessions, nextId, timeline, progress, decisions, snapshots,
                   clock, horizon, issued, pc, loc, view, transcript_path, all_sessions>>

NextLock ==
    \/ \E s \in {"", "s1"}, prompt \in LockPrompts, cwd \in Cwds, b \in LockBudgets :
          LockPrompt(s, prompt, cwd, b)
    \/ \E s \in LockSessionIds, b \in LockBudgets : LockPreTool(s, b)
    \/ \E s \in LockSessionIds, todos \in LockTodoLists, b \in LockBudgets :
          LockPostTool(s, "TodoWrite", todos, <<>>, b)
    \/ \E s \in LockSessionIds, q \in Questions \ {<<>>}, b \in LockBudgets :
          LockPostTool(s, "AskUserQuestion", <<>>, q, b)
    \/ \E s \in LockSessionIds, b \in LockBudgets : LockPermission(s, b)
    \/ \E mode \in SubagentModes, s \in LockSessionIds, b \in LockBudgets :
          LockSubagent(mode, s, b)
    \/ \E s \in LockSessionIds, t \in LockTranscripts, b \in LockBudgets :
          LockStop(s, t, b)
    \/ \E s \in LockSessionIds, n \in NotificationTypes, b \in LockBudgets :
          LockNotification(s, n, b)
    \/ \E json \in BOOLEAN, notifier \in NotifierResults : NotificationHook(json, notifier)

SpecLock == Init /\ [][NextLock]_vars

\* ------------------------------------------------- services/summary_service.py
\* A summary is a record with the keys the provider sets; `.get(key)` of
\* a key it lacks is NULL.  Every text here is shorter than the limits
\* of the slices applied to it.
PARSE_FAILED == "parse failed"
PARSED == [current_task |-> "Fixing bug", progress_summary |-> "1/2",
           pending_decision |-> NULL, next_step |-> "Run tests"]

Truthy(x) == x # NULL /\ x # ""

RECURSIVE FirstWithStatus(_, _)
FirstWithStatus(todos, statuses) ==
    IF todos = <<>> THEN NULL
    ELSE IF Head(todos).status \in statuses THEN Slice(Head(todos).content, 60)
    ELSE FirstWithStatus(Tail(todos), statuses)

CompletedOf(todos) == Len(SelectSeq(todos, LAMBDA t : t.status = "completed"))

_parse_response(content) ==
    IF content = "json" THEN PARSED
    ELSE [current_task |-> PARSE_FAILED, raw_response |-> content]

_fallback_summary(context, error) ==
    [current_task |-> Slice(context.original_goal, 50),
     progress_summary |-> IF Len(context.todos) > 0
                          THEN <<"done", CompletedOf(context.todos), Len(context.todos)>>
                          ELSE <<"in progress">>,
     pending_decision |-> context.pending_question,
     next_step |-> NULL,
     error |-> error]

DisabledProvider_generate_summary(context) ==
    LET in_progress_task == FirstWithStatus(context.todos, {"in_progress"})
    IN [mode |-> "raw",
        user_prompt |-> IF Truthy(context.last_user_message)
                        THEN Slice(context.last_user_message, 150) ELSE NULL,
        pending_question |-> IF Truthy(context.pending_question)
                             THEN Slice(context.pending_question, 150) ELSE NULL,
        current_task |-> IF Truthy(in_progress_task) THEN in_progress_task
                         ELSE Slice(context.original_goal, 60),
        progress_summary |-> IF Len(context.todos) > 0
                             THEN <<CompletedOf(context.todos), Len(context.todos)>>
                             ELSE NULL]

_fallback_to_raw(context, error) ==
    [k \in {"mode", "user_prompt", "pending_question", "current_task",
            "progress_summary", "fallback_reason"} |->
        IF k = "fallback_reason" THEN error
        ELSE DisabledProvider_generate_summary(context)[k]]

\* What the call of the chat-completions endpoint can come to.
ThirdPartyOutcomes == {"ok", "api_error", "timeout", "empty", "unparseable"}

ThirdPartyProvider_generate_summary(context, outcome) ==
    CASE outcome = "api_error" -> _fallback_to_raw(context, "API error")
      [] outcome = "timeout" -> _fallback_to_raw(context, "API timeout")
      [] outcome = "empty" -> _fallback_to_raw(context, "Empty API response")
      [] outcome = "unparseable" ->
            IF _parse_response("text").current_task = PARSE_FAILED
            THEN _fallback_to_raw(context, "JSON parse failed")
            ELSE _parse_response("text")
      [] OTHER -> [k \in DOMAIN _parse_response("json") \cup {"mode"} |->
                     IF k = "mode" THEN "ai" ELSE _parse_response("json")[k]]

\* What the run of the claude command can come to.
ClaudeSessionOutcomes ==
    {"ok", "timeout", "missing_cli", "nonzero_exit", "empty", "unparseable"}

ClaudeSessionProvider_generate_summary(context, outcome) ==
    CASE outcome = "timeout" -> _fallback_summary(context, "timeout")
      [] outcome = "missing_cli" -> _fallback_summary(context, "command not found")
      [] outcome = "nonzero_exit" -> _fallback_summary(context, "stderr")
      [] outcome = "empty" -> _fallback_summary(context, "call failed")
      [] outcome = "unparseable" -> _parse_response("text")
      [] OTHER -> _parse_response("json")

ExtractionOnlyProvider_generate_summary(context) ==
    [current_task |-> Slice(context.original_goal, 80),
     progress_summary |-> IF Len(context.todos) > 0
                          THEN <<"done", CompletedOf(context.todos), Len(context.todos)>>
                          ELSE <<"in progress">>,
     pending_decision |-> context.pending_question,
     next_step |-> FirstWithStatus(context.todos, {"pending", "in_progress"}),
     last_message_preview |-> ""]

Providers == {"third_party", "claude_session", "extraction_only", "disabled"}

OutcomesOf(provider) ==
    CASE provider = "third_party" -> ThirdPartyOutcomes
      [] provider = "claude_session" -> ClaudeSessionOutcomes
      [] OTHER -> {"ok"}

SummaryService_summarize(provider, context, outcome) ==
    CASE provider = "third_party" -> ThirdPartyProvider_generate_summary(context, outcome)
      [] provider = "claude_session" ->
            ClaudeSessionProvider_generate_summary(context, outcome)
      [] provider = "disabled" -> DisabledProvider_generate_summary(context)
      [] OTHER -> ExtractionOnlyProvider_generate_summary(context)

\* ------------------------------------------ services/notification_formatter.py
\* A formatted notification: the function that laid it out, the mode
\* tag of the title, the subtitle, and the body as <<prefix, text>>.
format_body(notification_type, original_goal, message, pending_question) ==
    IF notification_type = "completed" THEN <<"All steps completed", "">>
    ELSE IF notification_type = "permission_needed" /\ Truthy(message)
    THEN <<"Request: ", Slice(message, 70)>>
    ELSE IF Truthy(pending_question) THEN <<"", Slice(pending_question, 80)>>
    ELSE IF Truthy(original_goal) THEN <<"", Slice(original_goal, 80)>>
    ELSE IF Truthy(message) THEN <<"", Slice(message, 80)>>
    ELSE <<"", "">>

format_raw_notification(notification_type, summary, project_name, original_goal) ==
    LET user_prompt == Get(summary, "user_prompt", "")
        pending_q == Get(summary, "pending_question", "")
    IN [layout |-> "raw",
        mode |-> "raw",
        subtitle |-> IF Truthy(original_goal) THEN Slice(original_goal, 50)
                     ELSE IF Truthy(project_name) THEN project_name ELSE "Claude Task",
        body |-> IF Truthy(pending_q) THEN <<"AI needs input: ", Slice(pending_q, 70)>>
                 ELSE IF Truthy(user_prompt) THEN <<"", Slice(user_prompt, 80)>>
                 ELSE <<"", "">>]

format_notification(notification_type, project_name, original_goal, message, pending_question, summary) ==
    LET mode == Get(summary, "mode", NULL)
        mode_tag == IF mode = "ai" THEN "ai" ELSE NULL
        user_prompt == Get(summary, "user_prompt", NULL)
        user_input == IF Truthy(user_prompt) THEN user_prompt
                      ELSE IF Truthy(original_goal) THEN original_goal ELSE ""
        ai_summary == IF Truthy(Get(summary, "summary", NULL)) THEN summary.summary
                      ELSE IF Truthy(Get(summary, "current_task", NULL))
                      THEN summary.current_task ELSE ""
    IN IF mode = "raw"
       THEN format_raw_notification(notification_type, summary, project_name,
                                    original_goal)
       ELSE [layout |-> "default",
             mode |-> mode_tag,
             subtitle |-> Slice(user_input, 50),
             body |-> IF mode_tag = "ai" /\ Truthy(pending_question)
                      THEN <<"AI asks: ", Slice(pending_question, 70)>>
                      ELSE IF mode_tag = "ai" /\ Truthy(ai_summary)
                      THEN <<"", Slice(ai_summary, 80)>>
                      ELSE format_body(notification_type, original_goal, message,
                                       pending_question)]

\* ------------------------------------------------------------------------
\* The summary of the stop hook and the notification laid out from it,
\* for every provider, every outcome of the provider's outside call and
\* a few contexts.
SummaryTodoLists ==
    {<<>>, <<[status |-> "completed", content |-> "Read code"],
             [status |-> "in_progress", content |-> "Write fix"]>>}

Contexts ==
    [original_goal : {"", "fix bug"},
     last_user_message : {"", "add tests"},
     pending_question : {NULL, "Which branch?"},
     todos : SummaryTodoLists]

SummarizeCall(provider, outcome, context) ==
    LET summary == SummaryService_summarize(provider, context, outcome)
        asks == Truthy(context.pending_question)
        notification_type == IF asks THEN "decision_needed" ELSE "idle"
        goal == IF asks THEN context.original_goal
                ELSE Get(summary, "current_task", context.original_goal)
    IN /\ view' = [fn |-> "summarize", provider |-> provider, outcome |-> outcome,
                   context |-> context, summary |-> summary,
                   notification_type |-> notification_type,
                   formatted |-> format_notification(
                       notification_type, "proj", goal,
                       IF asks THEN context.pending_question ELSE "",
                       IF asks THEN context.pending_question ELSE NULL, summary)]
       /\ UNCHANGED <<sessions, nextId, timeline, progress, decisions, snapshots,
                      clock, horizon, issued, pc, loc, hook, transcript_path, all_sessions>>

NextSummary ==
    \E provider \in Providers, context \in Contexts :
        \E outcome \in OutcomesOf(provider) : SummarizeCall(provider, outcome, context)

SpecSummary == Init /\ [][NextSummary]_vars

\* ------------------------------------------------------------------------
\* Sessions with child rows of every table, the purge of stale pending
\* rows and the retention sweep.  The sweep's cutoff is at or before the
\* limit of the purge: a row 7 days old is older than 0.01 days.

ChildRows(d) ==
    Cardinality(DOMAIN d.progress) + Len(d.timeline) + Len(d.decisions)
        + Len(d.snapshots)

RetentionSweep(cutoff) ==
    LET r == cleanup_old_sessions(DB, cutoff)
    IN /\ Commit(r.db)
       /\ hook' = [NoHook EXCEPT !.name = "cleanup_old_sessions",
                                 !.exc = r.exc, !.calls = r.db.calls]
       /\ view' = [fn |-> "cleanup_old_sessions", ret |-> r.ret,
                   cascaded |-> ChildRows(DB) - ChildRows(r.db)]
       /\ UNCHANGED <<horizon, issued, pc, loc, transcript_path, all_sessions>>

NextCascade ==
    \/ \E p \in {"p1"} \ issued, cwd \in Cwds, sp \in ShellPids :
          SessionInit(p, cwd, sp)
    \/ \E s \in SessionIds, cwd \in Cwds : GoalTracker(NoEnv, s, "fix bug", cwd)
    \/ \E s \in SessionIds, q \in Questions \ {<<>>} :
          ProgressTracker(s, "AskUserQuestion", <<>>, q)
    \/ \E s \in SessionIds : SnapshotHook(s, <<>>)
    \/ TimePasses
    \/ \E cutoff \in 1..horizon : RetentionSweep(cutoff)

SpecCascade == Init /\ [][NextCascade]_vars

\* ------------------------------------------------------------------------
\* pre_tool_tracker.py as the process it is: get_session is one
\* connection, update_session_status another, and hooks of other
\* processes for the same session can commit between the two.
pre_tool_read(d, session_id) ==
    LET pk == get_session(d, session_id)
    IN IF session_id = "" \/ pk = NoPk THEN NULL
       ELSE d.sessions[pk].current_status

pre_tool_write(d, session_id, current_status) ==
    IF current_status \in {"working", "executing_tool"}
    THEN update_session_status(d, session_id, "executing_tool")
    ELSE Ok(d, NoPk)


PreToolRead(session_id) ==
    /\ pc[1] = "idle"
    /\ pre_tool_read(DB, session_id) # NULL
    /\ pc' = [pc EXCEPT ![1] = "read"]
    /\ loc' = [loc EXCEPT ![1] = [session_id |-> session_id,
                                  current_status |-> pre_tool_read(DB, session_id)]]
    /\ UNCHANGED <<sessions, nextId, timeline, progress, decisions, snapshots,
                   clock, horizon, issued, hook, view, transcript_path, all_sessions>>

PreToolWrite ==
    LET r == pre_tool_write(DB, loc[1].session_id, loc[1].current_status)
    IN /\ pc[1] = "read"
       /\ r.db.clock <= MaxClock
       /\ Commit(r.db)
       /\ hook' = [NoHook EXCEPT !.name = "pre_tool",
                                 !.session_id = loc[1].session_id,
                                 !.prev = PrevOf(loc[1].session_id),
                                 !.exc = r.exc, !.calls = r.db.calls,
                                 !.out = hook_main_guard(r)]
       /\ pc' = [pc EXCEPT ![1] = "idle"]
       /\ loc' = [loc EXCEPT ![1] = NoCall]
       /\ UNCHANGED <<horizon, issued, view, transcript_path, all_sessions>>

NextRace ==
    \/ \E p \in {"p1"} \ issued, cwd \in Cwds, sp \in ShellPids :
          SessionInit(p, cwd, sp)
    \/ \E env \in Envs, s \in HookSessionIds, cwd \in Cwds :
          GoalTracker(env, s, "fix bug", cwd)
    \/ \E s \in HookSessionIds : PreToolRead(s)
    \/ PreToolWrite
    \/ \E s \in HookSessionIds : PermissionTracker(s)
    \/ \E s \in HookSessionIds, q \in Questions \ {<<>>} :
          ProgressTracker(s, "AskUserQuestion", <<>>, q)
    \/ \E s \in HookSessionIds : SnapshotHook(s, <<>>)
    \/ \E p \in issued : SessionCleanup(p)

SpecRace == Init /\ [][NextRace]_vars

\* ------------------------------------------------------------------------
\* The hooks that notify, run with every outcome of the notifier.  `view`
\* keeps the call, so that the same call can be compared across outcomes.
AtNotifier(d, outcome) == [d EXCEPT !.notifier = outcome]

NotifyingHook(d, call) ==
    CASE call.fn = "ask" ->
            progress_tracker_main(d, call.session_id, "AskUserQuestion", <<>>, call.arg)
      [] call.fn = "notification" ->
            notification_tracker_main(d, call.session_id, call.arg, ELICITATION_MESSAGE)
      [] call.fn = "stop" -> snapshot_hook_main(d, call.session_id, call.arg)
      [] OTHER -> goal_tracker_main(d, NoEnv, call.session_id, call.arg, "/proj")

Deliver(call, h) ==
    LET r == NotifyingHook(AtNotifier(DB, call.notifier), call)
    IN /\ r.db.clock <= MaxLockTicks
       /\ Commit(r.db)
       /\ hook' = [h EXCEPT !.session_id = call.session_id,
                            !.prev = PrevOf(call.session_id),
                            !.exc = r.exc, !.calls = r.db.calls, !.notes = r.db.notes,
                            !.out = hook_main_guard(r)]
       /\ view' = call
       /\ UNCHANGED <<horizon, issued, pc, loc, transcript_path, all_sessions>>

Call(fn, session_id, arg, outcome) ==
    [fn |-> fn, session_id |-> session_id, arg |-> arg, notifier |-> outcome]

NextDeliver ==
    \/ \E s \in HookSessionIds, o \in Deliveries :
          Deliver(Call("prompt", s, "fix bug", o),
                  [NoHook EXCEPT !.name = "prompt", !.prompt = "fix bug"])
    \/ \E s \in HookSessionIds, q \in Questions \ {<<>>}, o \in Deliveries :
          Deliver(Call("ask", s, q, o),
                  [NoHook EXCEPT !.name = "post_tool", !.kind = "AskUserQuestion"])
    \/ \E s \in HookSessionIds, n \in NotificationTypes, o \in Deliveries :
          Deliver(Call("notification", s, n, o),
                  [NoHook EXCEPT !.name = "notification", !.kind = n])
    \/ \E s \in HookSessionIds, t \in Transcripts, o \in Deliveries :
          Deliver(Call("stop", s, t, o), [NoHook EXCEPT !.name = "stop"])

SpecDeliver == Init /\ [][NextDeliver]_vars

\* ------------------------------------------------------------------------
\* create_pending_session on a machine whose local time is utc_offset
\* ahead of (or behind) UTC; `view` holds the machine's zone.  A unit of
\* the clock is longer than the purge's threshold.
UtcOffsets == {-1, 0, 1}
PurgeProjects == {"/proj", "/other"}
PurgePendingIds == {"p1", "p2", "p3"}

AtZone(d, utc_offset) == [d EXCEPT !.utc_offset = utc_offset]

PurgeZone(utc_offset) ==
    /\ view = NoView
    /\ view' = [fn |-> "zone", utc_offset |-> utc_offset]
    /\ UNCHANGED <<sessions, nextId, timeline, progress, decisions, snapshots,
                   clock, horizon, issued, hook, pc, loc, transcript_path, all_sessions>>

PurgeCreatePending(pending_id, project) ==
    /\ view # NoView
    /\ Ran(create_pending_session(AtZone(DB, view.utc_offset), pending_id, project, 0),
           [StoreCall("create_pending_session") EXCEPT !.pending_id = pending_id])
    /\ issued' = issued \cup {pending_id}

NextPurge ==
    \/ \E o \in UtcOffsets : PurgeZone(o)
    \/ \E p \in PurgePendingIds \ issued, project \in PurgeProjects :
          PurgeCreatePending(p, project)
    \/ \E p \in issued, s \in SessionIds : StoreLinkPending(p, s, "fix bug")
    \/ TimePasses

SpecPurge == Init /\ [][NextPurge]_vars

\* --------------------------------------------------------------------
\* The state directory: all_sessions.json and its writers
\* --------------------------------------------------------------------
\* ORDER BY s.last_activity DESC; rows of one time come in rowid order.
RECURSIVE ByActivity(_, _)
ByActivity(d, rows) ==
    IF rows = {} THEN <<>>
    ELSE LET top == CHOOSE pk \in rows : \A q \in rows :
                       \/ d.sessions[q].last_activity < d.sessions[pk].last_activity
                       \/ d.sessions[q].last_activity = d.sessions[pk].last_activity /\ pk <= q
         IN <<top>> \o ByActivity(d, rows \ {top})

\* The count columns of a row that has no progress row (LEFT JOIN).
NoCount == -1

ActiveItem(d, pk) == [pk |-> pk, session_id |-> d.sessions[pk].session_id, pending_id |-> d.sessions[pk].pending_id, project |-> d.sessions[pk].project, original_goal |-> d.sessions[pk].original_goal, current_status |-> d.sessions[pk].current_status, last_activity |-> d.sessions[pk].last_activity, created_at |-> d.sessions[pk].created_at, completed_count |-> IF pk \in DOMAIN d.progress THEN d.progress[pk].completed_count ELSE NoCount, total_count |-> IF pk \in DOMAIN d.progress THEN d.progress[pk].total_count ELSE NoCount]

\* Variant: the WHERE clause on the status is left out.
get_active_sessions_any_status(d) ==
    LET rows == ByActivity(d, DOMAIN d.sessions)
    IN [i \in DOMAIN rows |-> ActiveItem(d, rows[i])]

\* get_active_sessions: sessions LEFT JOIN progress WHERE current_status
\* != 'completed' ORDER BY last_activity DESC.
get_active_sessions(d) ==
    LET rows == ByActivity(d, {pk \in DOMAIN d.sessions : d.sessions[pk].current_status # "completed"})
    IN [i \in DOMAIN rows |-> ActiveItem(d, rows[i])]

\* The entry of one session, with the fields the store model carries.
Summary(key, project, original_goal, status, completed, total, todos, pending_question, timeline_nodes, last_activity, created_at) == [session_id |-> key, project |-> project, original_goal |-> original_goal, status |-> status, completed |-> completed, total |-> total, todos |-> todos, pending_question |-> pending_question, timeline |-> timeline_nodes, last_activity |-> last_activity, created_at |-> created_at]

SUMMARY_MAX_NODES == 10

get_session_summary(d, session_id) ==
    LET pk == get_session(d, session_id)
        session == d.sessions[pk]
        prog == get_progress(d, session_id)
        pending_list == get_pending_decisions(d, session_id)
    IN IF pk = NoPk THEN NULL
       ELSE Summary(Key("", session_id), session.project, session.original_goal,
                    session.current_status, prog.completed_count, prog.total_count,
                    prog.todos,
                    IF pending_list = <<>> THEN NULL ELSE pending_list[1].question,
                    aggregate_timeline_nodes(d, session_id, SUMMARY_MAX_NODES),
                    session.last_activity, session.created_at)

\* s.get('completed_count', 0) or 0
OrZero(v) == IF v = NoCount THEN 0 ELSE v

PendingSummary(s) ==
    Summary(Key("pending_", s.pending_id), s.project, s.original_goal,
            s.current_status, OrZero(s.completed_count), OrZero(s.total_count),
            <<>>, NULL, <<>>, s.last_activity, s.created_at)

RECURSIVE SummariesOf(_, _)
SummariesOf(d, items) ==
    IF items = <<>> THEN <<>>
    ELSE LET s == Head(items)
             sid == s.session_id
             one == IF sid # NULL /\ sid # ""
                    THEN (IF get_session(d, sid) = NoPk THEN <<>>
                          ELSE <<get_session_summary(d, sid)>>)
                    ELSE <<PendingSummary(s)>>
         IN one \o SummariesOf(d, Tail(items))

get_all_session_summaries(d) == SummariesOf(d, get_active_sessions(d))

\* {s['session_id']: s for s in summaries}: a later summary of a key
\* replaces an earlier one.
DictOf(summaries) ==
    [k \in {summaries[i].session_id : i \in DOMAIN summaries} |->
        summaries[CHOOSE i \in DOMAIN summaries :
                     /\ summaries[i].session_id = k
                     /\ \A j \in DOMAIN summaries : summaries[j].session_id = k => j <= i]]

\* write_state_file_for_swift: the file is opened with 'w' and the whole
\* object written.
write_state_file_for_swift(d) == [d EXCEPT !.all_sessions = DictOf(get_all_session_summaries(d))]

\* --------------------------------------------------------------------
\* Two notification hooks and the projection writer share the file.
\* _write_state_file takes no lock: a process reads the object, another
\* process may run, then the first writes its object back.
\* --------------------------------------------------------------------
FileSessionIds == {"s1", "s2"}
FileTypes == {"idle_prompt", "permission_prompt"}

\* notification_tracker up to the read of all_sessions.json
\* (notification.py:204-211): the status is written, the payload built.
StateFileRead(p, session_id, notification_type) ==
    LET r == notification_tracker_main(DB, session_id, notification_type, ELICITATION_MESSAGE)
        note == r.db.notes[Len(r.db.notes)]
    IN /\ pc[p] # "read"
       /\ r.db.notes # <<>>
       /\ r.db.clock <= MaxStepTicks
       /\ Commit(r.db)
       /\ pc' = [pc EXCEPT ![p] = "read"]
       /\ loc' = [loc EXCEPT ![p] = [session_id |-> session_id,
                                     payload |-> Payload(session_id, note.notification_type, note.pending_question),
                                     all_sessions |-> all_sessions,
                                     during |-> {}]]
       /\ hook' = [NoHook EXCEPT !.name = "notification", !.session_id = session_id,
                                 !.kind = notification_type, !.prev = PrevOf(session_id)]
       /\ UNCHANGED <<horizon, issued, view, transcript_path, all_sessions>>

\* the rest of _write_state_file (notification.py:214-217) and of the hook;
\* during: the processes that are between their read and their write.
StateFileWrite(p) ==
    /\ pc[p] = "read"
    /\ all_sessions' = Put(loc[p].all_sessions, Key("", loc[p].session_id), loc[p].payload)
    /\ pc' = [pc EXCEPT ![p] = "done"]
    /\ loc' = [loc EXCEPT ![p].during = {q \in Procs \ {p} : pc[q] = "read"}]
    /\ hook' = [hook EXCEPT !.name = "notification", !.session_id = loc[p].session_id,
                            !.calls = <<"notify">>,
                            !.out = [stdout |-> <<[continue |-> TRUE, suppressOutput |-> TRUE]>>, exit_code |-> 0]]
    /\ UNCHANGED <<sessions, nextId, timeline, progress, decisions, snapshots,
                   clock, horizon, issued, view, transcript_path>>

WriteStateFileForSwift ==
    /\ all_sessions' = write_state_file_for_swift(DB).all_sessions
    /\ hook' = StoreCall("write_state_file_for_swift")
    /\ UNCHANGED <<sessions, nextId, timeline, progress, decisions, snapshots,
                   clock, horizon, issued, pc, loc, view, transcript_path>>

NextFile ==
    \/ \E s \in FileSessionIds, cwd \in Cwds : GoalTracker(NoEnv, s, "fix bug", cwd)
    \/ \E p \in Procs, s \in FileSessionIds, t \in FileTypes : StateFileRead(p, s, t)
    \/ \E p \in Procs : StateFileWrite(p)

SpecFile == Init /\ [][NextFile]_vars

\* The projection writer among the hooks that change what it reads; one
\* notification hook at a time leaves its entry in the file.
NextProjection ==
    \/ \E p \in PendingIds \ issued, cwd \in Cwds, sp \in ShellPids : SessionInit(p, cwd, sp)
    \/ \E env \in Envs, s \in HookSessionIds, cwd \in Cwds : GoalTracker(env, s, "fix bug", cwd)
    \/ \E s \in HookSessionIds : ProgressTracker(s, "TodoWrite", <<"completed", "pending">>, <<>>)
    \/ \E p \in issued : SessionCleanup(p)
    \/ \E s \in HookSessionIds, t \in FileTypes : StateFileRead(1, s, t)
    \/ StateFileWrite(1)
    \/ WriteStateFileForSwift

SpecProjection == Init /\ [][NextProjection]_vars

\* --------------------------------------------------------------------
\* Hook inputs the hooks have no branch for
\* --------------------------------------------------------------------
OtherTypes == {"auth_success", "session_resumed", ""}
Messages == {"", ELICITATION_MESSAGE}
OtherModes == {"restart"}

NotificationInput(session_id, notification_type, message) ==
    /\ Ran(notification_tracker_main(DB, session_id, notification_type, message),
           [NoHook EXCEPT !.name = "notification", !.session_id = session_id,
                          !.kind = notification_type, !.prompt = message,
                          !.prev = PrevOf(session_id)])
    /\ UNCHANGED issued

NextOther ==
    \/ \E s \in HookSessionIds, cwd \in Cwds : GoalTracker(NoEnv, s, "fix bug", cwd)
    \/ \E s \in HookSessionIds, todos \in {<<"pending">>, <<"completed">>} :
          ProgressTracker(s, "TodoWrite", todos, <<>>)
    \/ \E s \in HookSessionIds, q \in Questions \ {<<>>} :
          ProgressTracker(s, "AskUserQuestion", <<>>, q)
    \/ \E s \in HookSessionIds, n \in NotificationTypes \cup OtherTypes, m \in Messages :
          NotificationInput(s, n, m)
    \/ \E mode \in SubagentModes \cup OtherModes, s \in HookSessionIds :
          SubagentTracker(mode, s)

SpecOther == Init /\ [][NextOther]_vars

\* --------------------------------------------------------------------
\* Every operation that deletes or completes rows, with the retention sweep
\* --------------------------------------------------------------------
NextKeep ==
    \/ \E p \in PurgePendingIds \ issued, cwd \in Cwds, sp \in ShellPids : SessionInit(p, cwd, sp)
    \/ \E env \in Envs, s \in HookSessionIds, cwd \in Cwds : GoalTracker(env, s, "fix bug", cwd)
    \/ \E p \in issued, s \in HookSessionIds : StoreLinkPending(p, s, "fix bug")
    \/ \E s \in HookSessionIds : SnapshotHook(s, <<>>)
    \/ \E p \in issued : SessionCleanup(p)
    \/ \E p \in issued : StoreCleanupPending(p)
    \/ \E sp \in ShellPids : StoreCleanupShellPid(sp)
    \/ TimePasses
    \/ \E cutoff \in 1..horizon : RetentionSweep(cutoff)

SpecKeep == Init /\ [][NextKeep]_vars

\* --------------------------------------------------------------------
\* snapshot_hook.py as the process it is: the reads, the save_snapshot
\* transaction and the update_session_status transaction are separate
\* connections, and cleanup_session of the exiting wrapper can commit
\* between any two of them.
\* --------------------------------------------------------------------
stop_hook_read(d, session_id) ==
    LET pk == get_session(d, session_id)
        pending_decisions == get_pending_decisions(d, session_id)
    IN IF session_id = "" \/ pk = NoPk
       THEN [session_id |-> session_id, current_status |-> "absent",
             pending_question |-> NULL]
       ELSE [session_id |-> session_id,
             current_status |-> d.sessions[pk].current_status,
             pending_question |-> IF pending_decisions = <<>> THEN NULL
                                  ELSE pending_decisions[1].question]

stop_hook_save(d, session_id) ==
    Then(summarize(d), LAMBDA d0 : save_snapshot(d0, session_id))

stop_hook_status(d, session_id, transcript, pending_question) ==
    IF detect_rate_limit(transcript).detected
    THEN Then(update_session_status(d, session_id, "rate_limited"),
              LAMBDA d2 : notify_rate_limit(d2, session_id))
    ELSE Then(update_session_status(d, session_id, "idle"),
              LAMBDA d2 :
                 IF pending_question # NULL /\ pending_question # ""
                 THEN notify_decision_needed(d2, session_id, pending_question)
                 ELSE notify_task_idle(d2, session_id))

StopRead(session_id, transcript) ==
    /\ pc[1] \in {"idle", "done"}
    /\ stop_hook_read(DB, session_id).current_status # "absent"
    /\ pc' = [pc EXCEPT ![1] = "found"]
    /\ loc' = [loc EXCEPT ![1] = stop_hook_read(DB, session_id) @@ [transcript |-> transcript]]
    /\ hook' = [NoHook EXCEPT !.name = "stop", !.session_id = session_id,
                              !.prev = PrevOf(session_id)]
    /\ UNCHANGED <<sessions, nextId, timeline, progress, decisions, snapshots,
                   clock, horizon, issued, view, transcript_path, all_sessions>>

StopSave ==
    LET r == stop_hook_save(DB, loc[1].session_id)
    IN /\ pc[1] = "found"
       /\ r.db.clock <= MaxStepTicks
       /\ Commit(r.db)
       /\ pc' = [pc EXCEPT ![1] = IF r.exc = "" THEN "saved" ELSE "done"]
       /\ hook' = [hook EXCEPT !.exc = r.exc, !.calls = r.db.calls,
                               !.out = hook_main_guard(r)]
       /\ UNCHANGED <<horizon, issued, loc, view, transcript_path, all_sessions>>

StopStatus ==
    LET r == stop_hook_status(DB, loc[1].session_id, loc[1].transcript,
                              loc[1].pending_question)
    IN /\ pc[1] = "saved"
       /\ r.db.clock <= MaxStepTicks
       /\ Commit(r.db)
       /\ all_sessions' = r.db.all_sessions
       /\ pc' = [pc EXCEPT ![1] = "done"]
       /\ hook' = [hook EXCEPT !.prev = PrevOf(loc[1].session_id),
                               !.exc = r.exc, !.calls = hook.calls \o r.db.calls,
                               !.notes = r.db.notes, !.out = hook_main_guard(r)]
       /\ UNCHANGED <<horizon, issued, loc, view, transcript_path>>

NextStop ==
    \/ \E p \in PendingIds \ issued, cwd \in Cwds, sp \in ShellPids : SessionInit(p, cwd, sp)
    \/ \E p \in issued, s \in HookSessionIds : StoreLinkPending(p, s, "fix bug")
    \/ \E s \in HookSessionIds, t \in Transcripts : StopRead(s, t)
    \/ StopSave
    \/ StopStatus
    \/ \E p \in issued : SessionCleanup(p)

SpecStop == Init /\ [][NextStop]_vars

\* =====================================================================
\* Properties
\* =====================================================================
Rows == DOMAIN sessions
Linked(pk) == sessions[pk].session_id # NULL
TimelineOf(pk) == SelectSeq(timeline, LAMBDA e : e.pk = pk)
StoreUnchanged ==
    UNCHANGED <<sessions, nextId, timeline, progress, decisions, snapshots, clock>>

\* ---------------------------------------------------------------- C1
C1_RowForm ==
    \A pk \in Rows : sessions[pk].session_id = NULL => sessions[pk].pending_id # NULL
C1_Unique ==
    \A a, b \in Rows :
        (a # b /\ Linked(a)) => sessions[a].session_id # sessions[b].session_id
C1_StartsPending ==
    hook'.name = "session_init" =>
        \A pk \in DOMAIN sessions' \ Rows :
            /\ sessions'[pk].pending_id = hook'.pending_id
            /\ sessions'[pk].session_id = NULL
C1_StaysLinked ==
    \A pk \in Rows \cap DOMAIN sessions' : Linked(pk) => sessions'[pk].session_id # NULL

\* C1: every session row is either pending (pending_id set, session_id
\* null) or has a session_id; a row created by session-init starts pending;
\* a session_id once set is never null again; no two rows share a
\* session_id.
C1_Identity ==
    /\ [](C1_RowForm /\ C1_Unique)
    /\ [][C1_StartsPending /\ C1_StaysLinked]_vars

\* Witness: a prompt whose session id is already in the store arrived in
\* a run whose pending row is still unlinked, and the link was refused.
C1_Witness ==
    /\ hook.name = "prompt"
    /\ hook.exc = "IntegrityError"
    /\ \E a, b \in Rows : /\ sessions[a].session_id = hook.session_id
                          /\ sessions[b].pending_id = hook.pending_id
                          /\ sessions[b].session_id = NULL

\* ---------------------------------------------------------------- C2
C2_AtMostOneSucceeds ==
    ~ ( /\ pc[1] = "done" /\ pc[2] = "done"
        /\ loc[1].pending_id = loc[2].pending_id
        /\ loc[1].session_id # loc[2].session_id
        /\ loc[1].ret # NoPk /\ loc[2].ret # NoPk )
C2_NotOverwritten ==
    \A pk \in Rows \cap DOMAIN sessions' :
        Linked(pk) => sessions'[pk].session_id = sessions[pk].session_id

\* C2: of two link_pending calls for one pending_id with different session
\* ids, in any interleaving, only one returns the surrogate key (the other
\* returns not-found), and the session_id the first one wrote is never
\* overwritten.
C2_LinkedOnce ==
    /\ []C2_AtMostOneSucceeds
    /\ [][C2_NotOverwritten]_vars

\* ---------------------------------------------------------------- C6
C6_CreatedIdle ==
    \A pk \in DOMAIN sessions' \ Rows :
        /\ sessions'[pk].session_id = NULL
        /\ sessions'[pk].current_status = "idle"
        /\ sessions'[pk].original_goal = PLACEHOLDER_GOAL
C6_LinkStep(proc) ==
    LET pk == loc[proc].pk
        s == loc[proc].session_id
        g == loc[proc].goal
    IN ( /\ pc[proc] = "write" /\ pc'[proc] = "done"
         /\ g # ""
         /\ pk \in Rows
         /\ \A other \in Rows \ {pk} : sessions[other].session_id # s )
       => /\ loc'[proc].ret = pk
          /\ sessions[pk].pending_id = loc[proc].pending_id
          /\ clock' > clock
          /\ sessions' = [sessions EXCEPT ![pk] =
                             [@ EXCEPT !.session_id = s, !.original_goal = g,
                                       !.current_status = "working",
                                       !.last_activity = clock']]
          /\ timeline' = Append(timeline,
                                [pk |-> pk, event_type |-> "goal_set", content |-> g,
                                 metadata |-> <<>>, timestamp |-> clock'])
          /\ UNCHANGED <<progress, decisions, snapshots, nextId>>
\* No state shows a row with only part of the link: session_id and the
\* working status are there together, and with them the goal_set event.
C6_NoPartialLink ==
    \A pk \in Rows :
        /\ Linked(pk) <=> sessions[pk].current_status = "working"
        /\ (Linked(pk) /\ sessions[pk].original_goal # PLACEHOLDER_GOAL)
              => \E i \in DOMAIN timeline :
                    /\ timeline[i].pk = pk
                    /\ timeline[i].event_type = "goal_set"

\* C6: a row create_pending inserted is idle with the placeholder goal and
\* no session_id; link_pending with a non-empty goal and a session id no
\* other row holds returns that row's surrogate key and, in one step, sets
\* session_id, original goal, status working and last-activity and appends
\* exactly one goal_set event; no state in between is visible.
C6_LinkAtomic ==
    /\ []C6_NoPartialLink
    /\ [][C6_CreatedIdle /\ \A proc \in Procs : C6_LinkStep(proc)]_vars

C6_Witness ==
    \E proc \in Procs :
        /\ pc[proc] = "done"
        /\ loc[proc].ret # NoPk
        /\ loc[proc].goal = "fix bug"
        /\ loc[proc].ret \in Rows
        /\ sessions[loc[proc].ret].session_id = loc[proc].session_id
        /\ sessions[loc[proc].ret].original_goal = "fix bug"
        /\ sessions[loc[proc].ret].current_status = "working"

\* ---------------------------------------------------------------- C7
C7_NotFoundStep(proc) ==
    ( /\ pc[proc] = "idle" /\ pc'[proc] # "idle"
      /\ ~ \E pk \in Rows : /\ sessions[pk].pending_id = loc'[proc].pending_id
                            /\ sessions[pk].session_id = NULL )
    => /\ pc'[proc] = "done"
       /\ loc'[proc].ret = NoPk
       /\ loc'[proc].exc = ""
       /\ StoreUnchanged

\* C7: link_pending for a pending_id that has no row with a null
\* session_id (unknown, already linked, purged) returns not-found and
\* changes no row of any table, every time it is called.
C7_NotFoundNoop == [][\A proc \in Procs : C7_NotFoundStep(proc)]_vars

\* A call for a pending_id whose row is already linked returned not-found.
C7_Witness ==
    \E proc \in Procs :
        /\ pc[proc] = "done"
        /\ loc[proc].ret = NoPk
        /\ loc[proc].exc = ""
        /\ \E pk \in Rows : /\ sessions[pk].pending_id = loc[proc].pending_id
                            /\ sessions[pk].session_id # NULL
                            /\ sessions[pk].session_id # loc[proc].session_id

\* ---------------------------------------------------------------- C9
C9_Step ==
    LET pk == get_session(DB, hook'.session_id)
    IN (hook'.name = "pre_tool" /\ horizon' = horizon /\ pk # NoPk) =>
          IF sessions[pk].current_status \in {"working", "executing_tool"}
          THEN sessions'[pk].current_status = "executing_tool"
          ELSE /\ sessions' = sessions
               /\ timeline' = timeline

\* C9: a tool-about-to-run event sets the status to executing_tool when it
\* is working or executing_tool; for every other status it leaves status,
\* timeline and last-activity as they were.
C9_PreTool == [][C9_Step]_vars

C9_Witness ==
    LET pk == get_session(DB, hook.session_id)
    IN /\ hook.name = "pre_tool"
       /\ hook.prev = "waiting_permission"
       /\ pk # NoPk
       /\ sessions[pk].current_status = "waiting_permission"

\* ---------------------------------------------------------------- C3
LastEvent(pk) == TimelineOf(pk)[Len(TimelineOf(pk))]

\* C3: after a prompt-submitted event with a session id and a prompt, the
\* store has a session with that session_id and the prompt is on its
\* timeline as the goal_set or user_input event the hook appended (the
\* first USER_INPUT_MAX characters for a user_input event).
C3_PromptRecorded ==
    hook.name = "prompt" =>
        \E pk \in Rows :
            /\ sessions[pk].session_id = hook.session_id
            /\ TimelineOf(pk) # <<>>
            /\ LastEvent(pk).event_type \in {"goal_set", "user_input"}
            /\ LastEvent(pk).content \in {hook.prompt, Slice(hook.prompt, USER_INPUT_MAX)}

\* ---------------------------------------------------------------- C4
Resumed(prev) ==
    IF prev \in {"waiting_permission", "waiting_for_user", "idle", "rate_limited"}
    THEN "working" ELSE prev

\* The transition table: the status a trigger gives a session that had
\* status prev.
TableStatus(prev, h) ==
    CASE h.name = "prompt" -> "working"
      [] h.name = "pre_tool" ->
            IF prev \in {"working", "executing_tool"} THEN "executing_tool" ELSE prev
      [] h.name = "post_tool" /\ h.kind = "TodoWrite" ->
            IF \E i \in DOMAIN h.todos : h.todos[i] = "in_progress" THEN "working"
            ELSE IF h.todos # <<>> /\ \A i \in DOMAIN h.todos : h.todos[i] = "completed"
            THEN "completed"
            ELSE Resumed(prev)
      [] h.name = "post_tool" /\ h.kind = "AskUserQuestion" -> "waiting_for_user"
      [] h.name = "post_tool" -> Resumed(prev)
      [] h.name = "permission" -> "waiting_permission"
      [] h.name = "subagent" /\ h.kind = "start" -> "subagent_working"
      [] h.name = "subagent" /\ h.kind = "stop" -> "working"
      [] h.name = "stop" /\ h.kind = "rate_limit" -> "rate_limited"
      [] h.name = "stop" -> "idle"
      [] h.name = "cleanup" ->
            IF prev \in {"completed", "rate_limited"} THEN prev ELSE "completed"
      [] OTHER -> prev

\* C4: after every hook the status of the session it addressed is the
\* transition table's result for the status before the hook and the
\* trigger; a pending session just created is idle.  (An ask-question
\* event that carries no question, and notification events, are not
\* triggers of the table.)
C4_FollowsTable ==
    /\ hook.name = "session_init" =>
          \E pk \in Rows : /\ sessions[pk].pending_id = hook.pending_id
                           /\ sessions[pk].current_status = "idle"
    /\ hook.name = "prompt" =>
          \E pk \in Rows : /\ sessions[pk].session_id = hook.session_id
                           /\ sessions[pk].current_status = TableStatus(hook.prev, hook)
    /\ ( /\ hook.name \in {"pre_tool", "post_tool", "permission", "subagent", "stop"}
         /\ hook.kind # "AskUserQuestion(none)"
         /\ hook.prev # "absent" ) =>
          StatusOf(DB, get_session(DB, hook.session_id)) = TableStatus(hook.prev, hook)
    /\ (hook.name = "cleanup" /\ hook.prev # "absent") =>
          \A pk \in Rows : sessions[pk].pending_id = hook.pending_id =>
                              sessions[pk].current_status = TableStatus(hook.prev, hook)

\* ---------------------------------------------------------------- C5
NonTerminalOfShell(shell_pid) ==
    {pk \in Rows : /\ sessions[pk].shell_pid = shell_pid
                   /\ sessions[pk].current_status \notin {"completed", "rate_limited"}}

\* C5: after a session-init for a shell pid, exactly one non-terminal
\* session has that shell pid, and it is the pending one just created;
\* at no time do two non-terminal sessions share a shell pid.
C5_OnePerShell ==
    /\ \A sp \in ShellPids : Cardinality(NonTerminalOfShell(sp)) <= 1
    /\ hook.name = "session_init" =>
          \E pk \in Rows :
             /\ NonTerminalOfShell(hook.shell_pid) = {pk}
             /\ sessions[pk].pending_id = hook.pending_id
             /\ sessions[pk].session_id = NULL

\* ---------------------------------------------------------------- C8
StatusChanges(pk) ==
    SelectSeq(timeline, LAMBDA e : e.pk = pk /\ e.event_type = "status_change")

\* The status a row is inserted with: idle by create_pending_session,
\* working by create_session.
CreatedStatus(pk) == IF sessions[pk].pending_id # NULL THEN "idle" ELSE "working"

\* C8: a session whose status has changed since its row was inserted has a
\* status_change event, and the content of its latest status_change event
\* is its current status.
C8_StatusLogged ==
    \A pk \in Rows :
        (StatusChanges(pk) # <<>> \/ sessions[pk].current_status # CreatedStatus(pk))
        => /\ StatusChanges(pk) # <<>>
           /\ StatusChanges(pk)[Len(StatusChanges(pk))].content
                 = sessions[pk].current_status

\* ---------------------------------------------------------------- C10
\* C10: after a to-do update event for an existing session the stored
\* progress is the list the event carried, with completed_count the number
\* of completed items and total_count the length of the list (0/0 for the
\* empty list), and the hook did not raise.
C10_ProgressOfLatest ==
    (hook.name = "post_tool" /\ hook.kind = "TodoWrite" /\ hook.prev # "absent") =>
        /\ hook.exc = ""
        /\ get_progress(DB, hook.session_id) =
              [todos |-> hook.todos,
               completed_count |->
                  Cardinality({i \in DOMAIN hook.todos : hook.todos[i] = "completed"}),
               total_count |-> Len(hook.todos)]

\* ---------------------------------------------------------------- C11
C11_AskStep ==
    LET pk == get_session(DB, hook'.session_id)
    IN ( /\ hook'.name = "post_tool" /\ hook'.kind = "AskUserQuestion"
         /\ horizon' = horizon /\ pk # NoPk ) =>
          /\ Len(decisions') = Len(decisions) + 1
          /\ SubSeq(decisions', 1, Len(decisions)) = decisions
          /\ \E q \in Questions \ {<<>>} :
                /\ decisions'[Len(decisions')].pk = pk
                /\ decisions'[Len(decisions')].resolved = 0
                /\ decisions'[Len(decisions')].question = q[1].question
                /\ decisions'[Len(decisions')].options =
                      [i \in DOMAIN q[1].options |-> q[1].options[i].label]
          /\ sessions'[pk].current_status = "waiting_for_user"
C11_StaysResolved ==
    \A i \in DOMAIN decisions, j \in DOMAIN decisions' :
        ( /\ decisions[i].pk = decisions'[j].pk
          /\ decisions[i].created_at = decisions'[j].created_at
          /\ decisions[i].resolved = 1 ) => decisions'[j].resolved = 1
C11_PromptResolves ==
    hook.name = "prompt" => get_pending_decisions(DB, hook.session_id) = <<>>

\* C11: an ask-question event adds exactly one unresolved decision with
\* the question and the option labels in order and sets status
\* waiting_for_user; after a prompt-submitted event the session has no
\* unresolved decision; a resolved decision is never unresolved again.
C11_Decisions ==
    /\ []C11_PromptResolves
    /\ [][C11_AskStep /\ C11_StaysResolved]_vars

\* ---------------------------------------------------------------- C12
\* The sessions an identifier names: by pending id or by real session id.
Identified(id) ==
    {pk \in Rows : sessions[pk].pending_id = id \/ sessions[pk].session_id = id}

\* C12: after an explicit cleanup call with a session's identifier the
\* session is terminal: completed, or rate_limited if it was that before
\* (a session that was not terminal is completed); pending, linked and
\* directly created sessions alike.
C12_CleanupCompletes ==
    hook.name = "cleanup" =>
        \A pk \in Identified(hook.pending_id) :
            sessions[pk].current_status \in {"completed", "rate_limited"}

\* ---------------------------------------------------------------- C13
Terminal(pk) == sessions[pk].current_status \in {"completed", "rate_limited"}

C13_CleanupStep ==
    ( /\ hook'.name \in {"cleanup_session", "cleanup_pending_session",
                         "cleanup_active_sessions_by_shell_pid"}
      /\ horizon' = horizon ) =>
        \A pk \in Rows :
            Terminal(pk) =>
                /\ pk \in DOMAIN sessions'
                /\ sessions'[pk] = sessions[pk]
                /\ SelectSeq(timeline', LAMBDA e : e.pk = pk) = TimelineOf(pk)

\* C13: a cleanup (by pending id, by shell pid, of an unlinked pending
\* row) leaves a session that is already completed or rate_limited as it
\* is: same status, same last-activity, no new timeline event.
C13_TerminalUntouched == [][C13_CleanupStep]_vars

\* ---------------------------------------------------------------- C14
\* The log of the session the aggregation claims are about, and the
\* loop's locals before its i-th event.
Log == SessionEvents(DB, "s1")
LogNext == SessionEvents([DB EXCEPT !.sessions = sessions', !.timeline = timeline'], "s1")
Before(i) == Fold(FoldInit, SubSeq(Log, 1, i - 1))
NodesOf(events) == MarkLast(Fold(FoldInit, events).nodes)

\* An event that yields no node: a user_input event, a status_change to
\* a status without a node kind, a status_change inside the debounce
\* window.
NonTriggering(st, event) ==
    \/ event.event_type = "user_input"
    \/ /\ event.event_type = "status_change"
       /\ \/ event.content \notin {"waiting_for_user", "waiting_permission", "completed"}
          \/ Debounced(st, event)

C14_SameResult ==
    view # NoView =>
        view.nodes = aggregate_timeline_nodes(DB, view.session_id, view.max_nodes)
C14_AppendStep ==
    ( /\ Len(LogNext) = Len(Log) + 1
      /\ SubSeq(LogNext, 1, Len(Log)) = Log
      /\ NonTriggering(Fold(FoldInit, Log), LogNext[Len(LogNext)]) ) =>
        /\ NodesOf(LogNext) = NodesOf(Log)
        /\ \A n \in MaxNodesValues : Truncate(NodesOf(LogNext), n) = Truncate(NodesOf(Log), n)

PrevStatusChange(i) ==
    LET js == {j \in 1..(i - 1) : Log[j].event_type = "status_change"}
    IN IF js = {} THEN 0 ELSE CHOOSE j \in js : \A k \in js : k <= j

\* C15: a status_change event is debounced exactly when it is less than
\* DEBOUNCE_SECONDS after the previous status_change event of the log;
\* other events and the time of the last emitted node play no part.
C15_DebounceRule ==
    \A i \in DOMAIN Log :
        Log[i].event_type = "status_change" =>
            ( Debounced(Before(i), Log[i])
              <=> /\ PrevStatusChange(i) # 0
                  /\ Log[i].timestamp - Log[PrevStatusChange(i)].timestamp
                        < DEBOUNCE_SECONDS )

\* ---------------------------------------------------------------- C16
\* The kinds of the nodes the i-th event of the log added.
AddedKinds(i) ==
    LET was == Before(i).nodes
        is == FoldStep(Before(i), Log[i]).nodes
    IN [k \in 1..(Len(is) - Len(was)) |-> is[Len(was) + k].type]

NodeKindOf(status) ==
    CASE status = "waiting_for_user" -> <<"waiting">>
      [] status = "waiting_permission" -> <<"permission">>
      [] status = "completed" -> <<"complete">>
      [] OTHER -> <<>>

\* Outside the debounce window, by the loop's test and by the time since
\* the previous status_change alike.
NotDebounced(i) ==
    /\ ~ Debounced(Before(i), Log[i])
    /\ \/ PrevStatusChange(i) = 0
       \/ Log[i].timestamp - Log[PrevStatusChange(i)].timestamp >= DEBOUNCE_SECONDS

\* Up to the i-th event the loop debounced exactly the status_change
\* events that came less than DEBOUNCE_SECONDS after the one before.
DebounceAgreed(i) ==
    \A j \in 1..(i - 1) :
        Log[j].event_type = "status_change" =>
            ( Debounced(Before(j), Log[j])
              <=> /\ PrevStatusChange(j) # 0
                  /\ Log[j].timestamp - Log[PrevStatusChange(j)].timestamp
                        < DEBOUNCE_SECONDS )

\* C16: a status_change event that is not debounced yields no node when
\* its status is that of the status_change event just before it in the
\* log, and otherwise the node of its status: waiting, permission,
\* complete, or none.
C16_RepeatRule ==
    \A i \in DOMAIN Log :
        (Log[i].event_type = "status_change" /\ NotDebounced(i) /\ DebounceAgreed(i)) =>
            AddedKinds(i) =
                IF /\ PrevStatusChange(i) # 0
                   /\ Log[PrevStatusChange(i)].content = Log[i].content
                THEN <<>>
                ELSE NodeKindOf(Log[i].content)

\* ---------------------------------------------------------------- C17
\* The running count of newly completed items when the i-th event, a
\* progress_update, has been counted.
RunningCount(i) ==
    LET st == Before(i)
        completed == Log[i].metadata[1]
    IN IF completed > st.last_completed_count
       THEN st.consecutive_progress + (completed - st.last_completed_count)
       ELSE st.consecutive_progress

Has(kinds, kind) == \E k \in DOMAIN kinds : kinds[k] = kind

\* C17: a progress_update event emits a milestone node exactly when the
\* running count of newly completed items has reached MILESTONE_STEP (the
\* count then restarts at 0), and emits a complete node exactly when it
\* reports completed = total > 0, whatever the running count.
C17_ProgressNodes ==
    \A i \in DOMAIN Log :
        Log[i].event_type = "progress_update" =>
            /\ Has(AddedKinds(i), "milestone") <=> RunningCount(i) >= MILESTONE_STEP
            /\ Has(AddedKinds(i), "complete")
                  <=> /\ Log[i].metadata[1] = Log[i].metadata[2]
                      /\ Log[i].metadata[2] > 0
            /\ FoldStep(Before(i), Log[i]).consecutive_progress =
                  IF RunningCount(i) >= MILESTONE_STEP THEN 0 ELSE RunningCount(i)

\* ---------------------------------------------------------------- C18
\* C18: in a sequence aggregate returned, every node before the last is
\* marked completed, and the last is marked current unless it is a
\* complete node, which is marked completed.
C18_Marking ==
    view # NoView =>
        \A k \in DOMAIN view.nodes :
            view.nodes[k].status =
                IF k = Len(view.nodes) /\ view.nodes[k].type # "complete"
                THEN "current" ELSE "completed"

\* ---------------------------------------------------------------- C19
\* C19: for every log and every max_nodes >= 0 aggregate returns exactly
\* the last min(n, max_nodes) nodes, in order, of the n-node untruncated
\* sequence, so the result never has more than max_nodes entries.
C19_LastNodes ==
    view # NoView =>
        LET all  == AllNodes(DB, view.session_id)
            keep == Min({Len(all), view.max_nodes})
        IN  /\ Len(view.nodes) <= view.max_nodes
            /\ view.nodes = SubSeq(all, Len(all) - keep + 1, Len(all))

\* ---------------------------------------------------------------- C20
\* C20: on a session whose status was working, three successive to-do
\* updates over a 3-item list that raise the completed count to 1, 2
\* and 3 (the first two lists still hold an in-progress item) leave the
\* status working after the first and the second and completed after
\* the third; aggregate then returns a sequence whose final node is a
\* complete node marked completed, and the three updates contributed
\* exactly that one complete node.
CompleteNodes(nodes) == {k \in DOMAIN nodes : nodes[k].type = "complete"}

\* The events logged before the first to-do update.
PriorLog ==
    LET first == Min({i \in DOMAIN Log : Log[i].event_type = "progress_update"}
                     \cup {Len(Log) + 1})
    IN SubSeq(Log, 1, first - 1)

C20_Statuses ==
    ScenProgress.total_count = 3 =>
        sessions[get_session(DB, "s1")].current_status =
            IF ScenProgress.completed_count = 3 THEN "completed" ELSE "working"

C20_FinalNode ==
    (view # NoView /\ ScenProgress.completed_count = 3) =>
        /\ view.nodes # <<>>
        /\ view.nodes[Len(view.nodes)].type = "complete"
        /\ view.nodes[Len(view.nodes)].status = "completed"
        /\ Cardinality(CompleteNodes(NodesOf(Log)))
              = Cardinality(CompleteNodes(NodesOf(PriorLog))) + 1

C20_Scenario == C20_Statuses /\ C20_FinalNode

C20_Witness ==
    /\ view # NoView
    /\ ScenProgress.completed_count = 3
    /\ Len(view.nodes) >= 2
    /\ sessions[get_session(DB, "s1")].current_status = "completed"

\* ---------------------------------------------------------------- C21
\* C21: rate-limit detection returns true exactly when one of the last 5
\* transcript records is of type error, tool_result with is_error true,
\* or system, and its error, result or message field contains, case
\* ignored, one of the keywords; user and assistant records and records
\* older than the last 5 never cause detection; the keyword reported
\* occurs in a matching record.
Records == ParsedLines(transcript_path)
LastFive == {i \in DOMAIN Records : i > Len(Records) - 5}

\* The keywords that make this record a rate-limit record.
Triggers(record) ==
    LET field == IF record.type = "error" THEN "error"
                 ELSE IF record.type = "tool_result" /\ Get(record, "is_error", FALSE)
                 THEN "result"
                 ELSE IF record.type = "system" THEN "message"
                 ELSE ""
    IN IF field = "" THEN {}
       ELSE {k \in DOMAIN RATE_LIMIT_KEYWORDS :
                Contains(lower(Get(record, field, <<>>)), RATE_LIMIT_KEYWORDS[k])}

C21_Rule(ret) ==
    /\ ret.detected <=> \E i \in LastFive : Triggers(Records[i]) # {}
    /\ ret.detected =>
          \E i \in LastFive :
              \E k \in Triggers(Records[i]) : ret.keyword = RATE_LIMIT_KEYWORDS[k]

C21_SnapshotHook ==
    ("fn" \in DOMAIN view /\ view.fn = "snapshot_hook") => C21_Rule(view.ret)

C21_StopHook ==
    ("fn" \in DOMAIN view /\ view.fn = "stop_hook") => C21_Rule(view.ret)

C21_Detection == C21_SnapshotHook /\ C21_StopHook

\* ---------------------------------------------------------------- C22
\* C22: on an agent-stopped event for an existing session exactly one
\* notification decision is made.  If the transcript shows a rate limit
\* the status becomes rate_limited and the one notification is the
\* rate-limited one; otherwise the status becomes idle and the one
\* notification is decision-needed with the most recently created
\* unresolved question when the session has an unresolved decision, and
\* idle when it has none.
C22_StopStep ==
    LET pk == get_session(DB, hook'.session_id)
        unresolved == {i \in DOMAIN decisions :
                          decisions[i].pk = pk /\ decisions[i].resolved = 0}
        latest == CHOOSE i \in unresolved :
                      \A j \in unresolved :
                          decisions[j].created_at <= decisions[i].created_at
    IN ( /\ hook'.name = "stop" /\ clock' # clock /\ pk # NoPk ) =>
          /\ Len(hook'.notes) = 1
          /\ IF hook'.kind = "rate_limit"
             THEN /\ sessions'[pk].current_status = "rate_limited"
                  /\ hook'.notes[1].notification_type = "rate_limited"
             ELSE /\ sessions'[pk].current_status = "idle"
                  /\ IF unresolved # {}
                     THEN hook'.notes[1] =
                             [notification_type |-> "decision_needed",
                              pending_question |-> decisions[latest].question]
                     ELSE hook'.notes[1].notification_type = "idle"

C22_StopDecision == [][C22_StopStep]_vars

\* A stop with two unresolved questions, notified with the later one.
C22_Witness ==
    /\ hook.name = "stop"
    /\ hook.notes # <<>>
    /\ hook.notes[1].notification_type = "decision_needed"
    /\ hook.notes[1].pending_question = "Which branch?"
    /\ \E i \in DOMAIN decisions :
          decisions[i].resolved = 0 /\ decisions[i].question = "Proceed with deletion?"

\* ---------------------------------------------------------------- C23
\* C23: every hook invocation ends with exit code 0 after writing exactly
\* one acknowledgment object with continue true and suppressOutput true,
\* on every input and on every internal failure (a store error, a failed,
\* timed-out or missing notifier).
C23_Acknowledged ==
    hook.name \in HostHooks \cup {"notification_hook"} =>
        /\ hook.out.exit_code = 0
        /\ hook.out.stdout = <<[continue |-> TRUE, suppressOutput |-> TRUE]>>

\* The same for the hooks of task_tracker/hooks alone.
C23_HostHooks ==
    hook.name \in HostHooks =>
        /\ hook.out.exit_code = 0
        /\ hook.out.stdout = <<[continue |-> TRUE, suppressOutput |-> TRUE]>>

\* ---------------------------------------------------------------- C24
\* C24: a hook event with no session id, a prompt-submitted event with an
\* empty prompt, and any other hook event whose session id is not in the
\* store leave every table of the store unchanged and emit no notification.
C24_Silent(h) ==
    \/ h.session_id = ""
    \/ h.name = "prompt" /\ h.prompt = ""
    \/ h.name # "prompt" /\ h.prev = "absent"

C24_Step ==
    (hook'.name \in HostHooks /\ C24_Silent(hook')) =>
        /\ UNCHANGED <<sessions, nextId, timeline, progress, decisions, snapshots>>
        /\ hook'.notes = <<>>

C24_NoOp == [][C24_Step]_vars

\* A stop event for a session the store does not hold, while the store
\* holds another session.
C24_Witness ==
    /\ hook.name = "stop"
    /\ hook.session_id = "s2"
    /\ hook.prev = "absent"
    /\ get_session(DB, "s1") # NoPk
    /\ get_session(DB, "s2") = NoPk

\* ---------------------------------------------------------------- C25
\* C25: whenever the configured summarizer fails or times out (API error,
\* timeout, empty or unparseable response, missing CLI, non-zero exit),
\* for every provider type the summary is a raw one built from the latest
\* user message and the pending question and tagged with mode raw, and
\* the formatter renders it with the raw layout.
C25_Raw ==
    /\ Get(view.summary, "mode", NULL) = "raw"
    /\ Get(view.summary, "user_prompt", "absent") =
          (IF Truthy(view.context.last_user_message)
           THEN view.context.last_user_message ELSE NULL)
    /\ Get(view.summary, "pending_question", "absent") =
          (IF Truthy(view.context.pending_question)
           THEN view.context.pending_question ELSE NULL)
    /\ view.formatted.layout = "raw"

C25_RawFallback ==
    (Get(view, "fn", "") = "summarize" /\ view.outcome # "ok") => C25_Raw

\* The same for the third-party provider alone.
C25_ThirdParty ==
    (Get(view, "fn", "") = "summarize" /\ view.outcome # "ok"
        /\ view.provider = "third_party") => C25_Raw

\* ---------------------------------------------------------------- C26
\* C26: in every reachable state every progress, timeline,
\* pending-decision and snapshot row references an existing session row;
\* deleting a session (by the retention sweep or by the pending purge)
\* removes all of its child rows in the same transaction and no child row
\* of any other session.
C26_References ==
    /\ DOMAIN progress \subseteq DOMAIN sessions
    /\ \A i \in DOMAIN timeline : timeline[i].pk \in DOMAIN sessions
    /\ \A i \in DOMAIN decisions : decisions[i].pk \in DOMAIN sessions
    /\ \A i \in DOMAIN snapshots : snapshots[i].pk \in DOMAIN sessions

C26_Deletion ==
    LET gone == DOMAIN sessions \ DOMAIN sessions'
        Kept(rows) == SelectSeq(rows, LAMBDA e : e.pk \notin gone)
        OfOld(rows) == SelectSeq(rows, LAMBDA e : e.pk \in DOMAIN sessions)
    IN gone # {} =>
          /\ OfOld(timeline') = Kept(timeline)
          /\ OfOld(decisions') = Kept(decisions)
          /\ OfOld(snapshots') = Kept(snapshots)
          /\ DOMAIN progress' \cap DOMAIN sessions = DOMAIN progress \ gone
          /\ \A pk \in DOMAIN progress \ gone : progress'[pk] = progress[pk]

C26_Cascade == []C26_References /\ [][C26_Deletion]_vars

\* The sweep has deleted a session with child rows while a session with
\* child rows of its own stays.
C26_Witness ==
    /\ Get(view, "fn", "") = "cleanup_old_sessions"
    /\ view.ret >= 1
    /\ view.cascaded >= 3
    /\ DOMAIN sessions # {}
    /\ DOMAIN progress = DOMAIN sessions

\* ---------------------------------------------------------------- C27
\* C27: the tool-about-to-run hook re-validates its precondition in its
\* write: in every interleaving with a concurrent permission-requested,
\* ask-question, agent-stopped or cleanup hook for the same session, it
\* never replaces a status other than working or executing_tool with
\* executing_tool.
C27_WriteStep ==
    (pc[1] = "read" /\ pc'[1] = "idle") =>
        \A pk \in DOMAIN sessions :
            sessions'[pk].current_status # sessions[pk].current_status =>
                sessions[pk].current_status \in {"working", "executing_tool"}

C27_Revalidates == [][C27_WriteStep]_vars

\* ---------------------------------------------------------------- C28
\* C28: in every hook the summarizer and the notifier are invoked only
\* after all of that hook's store write transactions have committed; in
\* the agent-stopped hook the snapshot insert and the status transition
\* are committed before the summarizer is called.
OutsideCalls == {"summarize", "notify"}

OutsideLast(calls) ==
    \A i, j \in DOMAIN calls :
        (i < j /\ calls[i] \in OutsideCalls) => calls[j] \in OutsideCalls

C28_OutsideAfterWrites == hook.name \in HostHooks => OutsideLast(hook.calls)

\* The same for every hook but the agent-stopped one.
C28_OtherHooks ==
    (hook.name \in HostHooks /\ hook.name # "stop") => OutsideLast(hook.calls)

\* ---------------------------------------------------------------- C29
\* C29: each hook's store effect for one trigger is atomic with respect
\* to other processes and to failure: for the ask-question trigger the
\* pending decision is recorded if and only if the waiting_for_user
\* transition is recorded; for the to-do trigger the progress row is
\* overwritten if and only if the resulting status transition (working or
\* completed) is recorded.
C29_Added(event_type, contents) ==
    \E i \in DOMAIN timeline' \ DOMAIN timeline :
        /\ timeline'[i].event_type = event_type
        /\ timeline'[i].content \in contents

C29_Step ==
    /\ (hook'.name = "post_tool" /\ hook'.kind = "AskUserQuestion") =>
          (Len(decisions') > Len(decisions)
              <=> C29_Added("status_change", {"waiting_for_user"}))
    /\ (hook'.name = "post_tool" /\ hook'.kind = "TodoWrite") =>
          ((\E i \in DOMAIN timeline' \ DOMAIN timeline :
                timeline'[i].event_type = "progress_update")
              <=> C29_Added("status_change", {"working", "completed"}))

C29_Atomic == [][C29_Step]_vars

\* ---------------------------------------------------------------- C30
\* C30: a store write operation that cannot obtain the lock within its
\* bounded wait is abandoned with no partial effect (the store is as
\* before the operation), the failure is not propagated to the host, and
\* the hook still returns the success acknowledgment.
\* A hook run that ended on the lock error has acknowledged with exit
\* code 0, and when the write that met the error was its first, the store
\* is as before the hook.
C30_Step ==
    /\ (hook'.name \in HostHooks /\ hook'.exc = "OperationalError") =>
          /\ hook'.out.exit_code = 0
          /\ hook'.out.stdout = <<[continue |-> TRUE, suppressOutput |-> TRUE]>>
    /\ (hook'.name \in HostHooks /\ hook'.exc = "OperationalError"
            /\ Len(SelectSeq(hook'.calls, LAMBDA c : c \notin OutsideCalls)) = 1) =>
          UNCHANGED <<sessions, nextId, timeline, progress, decisions, snapshots>>

C30_LockTimeout == [][C30_Step]_vars

\* The ask-question hook met the lock error in its first write.
C30_Witness ==
    /\ hook.name = "post_tool"
    /\ hook.kind = "AskUserQuestion"
    /\ hook.exc = "OperationalError"
    /\ hook.calls = <<"add_pending_decision">>
    /\ hook.prev = "working"
    /\ decisions = <<>>

\* ---------------------------------------------------------------- C31
\* C31: a notifier delivery failure or timeout never changes stored
\* state: in every hook that notifies, the status transition and any
\* decision or snapshot row are already committed when the notifier is
\* called, and they are identical after the hook whether the notifier
\* succeeded, failed or timed out.
C31_Step ==
    LET delivered == NotifyingHook(AtNotifier(DB, "ok"), view').db
        writes == {i \in DOMAIN hook'.calls : hook'.calls[i] \notin OutsideCalls}
    IN (hook'.name \in {"post_tool", "notification", "stop"}
           /\ get_session(DB, hook'.session_id) # NoPk) =>
          /\ sessions' = delivered.sessions
          /\ timeline' = delivered.timeline
          /\ progress' = delivered.progress
          /\ decisions' = delivered.decisions
          /\ snapshots' = delivered.snapshots
          /\ hook'.notes # <<>>
          /\ \A i \in writes, j \in DOMAIN hook'.calls :
                hook'.calls[j] = "notify" => i < j

C31_DeliveryFrame == [][C31_Step]_vars

\* The permission notification timed out; the status is recorded.
C31_Witness ==
    /\ hook.name = "notification"
    /\ hook.kind = "permission_prompt"
    /\ Get(view, "notifier", "") = "timeout"
    /\ hook.notes # <<>>
    /\ hook.prev = "working"
    /\ PrevOf(hook.session_id) = "waiting_permission"

\* ---------------------------------------------------------------- C32
\* C32: the purge inside create_pending deletes exactly the rows that are
\* pending, belong to the same project, and whose age, measured on one
\* clock, exceeds the threshold; it never deletes a younger pending row,
\* a row of another project, or a linked session, whatever the offset
\* between the writer's local clock and the store's clock.
\* A row stamped created_at by a writer in zone utc_offset was created at
\* created_at - utc_offset on the store's clock.
C32_Old(pk) == sessions[pk].created_at - view.utc_offset < horizon

C32_Gone == DOMAIN sessions \ DOMAIN sessions'

C32_Step ==
    hook'.name = "create_pending_session" /\ hook'.exc = "" /\ clock' # clock =>
        C32_Gone = {pk \in DOMAIN sessions :
                       /\ sessions[pk].pending_id # NULL
                       /\ sessions[pk].session_id = NULL
                       /\ sessions[pk].project = sessions'[nextId].project
                       /\ C32_Old(pk)}

C32_PurgeExact == [][C32_Step]_vars

\* The same when the local clock is the store's clock.
C32_SameClock == [][Get(view, "utc_offset", 0) = 0 => C32_Step]_vars

\* In every zone the purge leaves linked rows and other projects' rows.
C32_Scope ==
    [][\A pk \in C32_Gone :
          /\ sessions[pk].session_id = NULL
          /\ sessions[pk].project = sessions'[nextId].project]_vars

\* ---------------------------------------------------------------- C33
\* C33: right after write_state_file_for_swift has run, all_sessions.json
\* holds exactly one entry for every session row whose status is not
\* completed and no other entry: a linked row under its session id, a
\* pending row under 'pending_' + pending_id; the fields of the entry are
\* those of the row, of its progress row, of its newest unresolved
\* decision and of its timeline as the store holds them.
C33_Active == {pk \in DOMAIN sessions' : sessions'[pk].current_status # "completed"}
C33_KeyOf(pk) ==
    IF sessions'[pk].session_id # NULL THEN <<"", sessions'[pk].session_id>>
    ELSE <<"pending_", sessions'[pk].pending_id>>
C33_Newest(pk) ==
    LET open == SelectSeq(decisions', LAMBDA e : e.pk = pk /\ e.resolved = 0)
    IN IF open = <<>> THEN NULL ELSE open[Len(open)].question
C33_Entry(pk) ==
    LET e == all_sessions'[C33_KeyOf(pk)]
    IN /\ e.session_id = C33_KeyOf(pk)
       /\ e.status = sessions'[pk].current_status
       /\ e.project = sessions'[pk].project
       /\ e.original_goal = sessions'[pk].original_goal
       /\ e.last_activity = sessions'[pk].last_activity
       /\ e.created_at = sessions'[pk].created_at
       /\ e.completed = IF pk \in DOMAIN progress' THEN progress'[pk].completed_count ELSE 0
       /\ e.total = IF pk \in DOMAIN progress' THEN progress'[pk].total_count ELSE 0
       /\ e.pending_question = C33_Newest(pk)
       /\ Len(e.timeline) <= Len(SelectSeq(timeline', LAMBDA t : t.pk = pk))
C33_Step ==
    hook'.name = "write_state_file_for_swift" =>
        /\ DOMAIN all_sessions' = {C33_KeyOf(pk) : pk \in C33_Active}
        /\ Cardinality(DOMAIN all_sessions') = Cardinality(C33_Active)
        /\ \A pk \in C33_Active : C33_Entry(pk)
C33_Projection == [][C33_Step]_vars
C33_Witness ==
    /\ hook.name = "write_state_file_for_swift"
    /\ \E k \in DOMAIN all_sessions : k[1] = ""
    /\ \E k \in DOMAIN all_sessions : k[1] = "pending_"
    /\ \E pk \in DOMAIN sessions : sessions[pk].current_status = "completed"

\* ---------------------------------------------------------------- C34
\* C34: a notification hook whose notification_type is none of
\* idle_prompt, elicitation_dialog and permission_prompt, and a sub-agent
\* hook whose mode is neither start nor stop, leave the session rows, the
\* timeline, the progress rows and the pending decisions as they were,
\* and the hook prints the acknowledgement and exits with 0.
C34_Unrecognized(h) ==
    \/ h.name = "notification" /\ h.kind \notin NotificationTypes
    \/ h.name = "subagent" /\ h.kind \notin SubagentModes
C34_Step ==
    C34_Unrecognized(hook') =>
        /\ UNCHANGED <<sessions, timeline, progress, decisions>>
        /\ hook'.exc = ""
        /\ hook'.out = [stdout |-> <<[continue |-> TRUE, suppressOutput |-> TRUE]>>,
                        exit_code |-> 0]
C34_NoBranch == [][C34_Step]_vars
C34_Witness ==
    /\ hook.name = "notification"
    /\ hook.kind = "session_resumed"
    /\ hook.prev = "waiting_for_user"
    /\ hook.notes # <<>>
    /\ \E i \in DOMAIN decisions : decisions[i].resolved = 0
    /\ progress # <<>>

\* ---------------------------------------------------------------- C35
\* C35: a session row whose session_id is not NULL leaves the sessions
\* table only in a step of cleanup_old_sessions, the retention sweep: the
\* purge of create_pending_session, link_pending_session, the cleanup
\* calls and the hooks keep every linked row.
C35_Step ==
    (\E pk \in DOMAIN sessions :
        sessions[pk].session_id # NULL /\ pk \notin DOMAIN sessions')
    => hook'.name = "cleanup_old_sessions"
C35_LinkedKept == [][C35_Step]_vars
\* The purge has deleted a pending row and a linked row as old as it is
\* still there.
C35_Witness ==
    /\ hook.name = "session_init"
    /\ Cardinality(DOMAIN sessions) < nextId - 1
    /\ \E pk \in DOMAIN sessions :
          /\ sessions[pk].session_id # NULL
          /\ sessions[pk].pending_id # NULL
          /\ sessions[pk].created_at < horizon

\* ---------------------------------------------------------------- C36
\* C36: when cleanup_session has completed the session after the Stop hook
\* read it and before the hook's status write, the session is still
\* completed after that write: the hook's idle or rate_limited does not
\* replace the status cleanup wrote.
C36_Pk == get_session(DB, loc[1].session_id)
C36_Step ==
    (/\ pc[1] = "saved" /\ pc'[1] = "done"
     /\ loc[1].current_status # "completed"
     /\ sessions[C36_Pk].current_status = "completed")
    => sessions'[C36_Pk].current_status = "completed"
C36_CleanupStays == [][C36_Step]_vars

\* ---------------------------------------------------------------- C37
\* C37: every linked session has one row and, once its first prompt is
\* recorded, exactly one goal_set event in its timeline, whether the row
\* was linked from a pending row or made by create_session.
C37_GoalSets(pk) == Len(SelectSeq(timeline, LAMBDA e : e.pk = pk /\ e.event_type = "goal_set"))
C37_OneGoalSet ==
    \A pk \in DOMAIN sessions :
        sessions[pk].session_id # NULL =>
            /\ C37_GoalSets(pk) = 1
            /\ \A other \in DOMAIN sessions :
                  sessions[other].session_id = sessions[pk].session_id => other = pk

\* ---------------------------------------------------------------- C38
\* C38: when a notification hook writes all_sessions.json back and another
\* hook, for another session, has written it while the first was between
\* its read and its write, the file holds the entries of both sessions.
C38_Step ==
    \A p \in Procs : \A q \in Procs \ {p} :
        (/\ pc[p] = "read" /\ pc'[p] = "done"
         /\ pc[q] = "done"
         /\ p \in loc[q].during
         /\ loc[q].session_id # loc[p].session_id)
        => {Key("", loc[p].session_id), Key("", loc[q].session_id)} \subseteq DOMAIN all_sessions'
C38_BothEntries == [][C38_Step]_vars
====
